---- MODULE Spec2Model ----
(***************************************************************************)
(* The collection core of MLB-data-platform: the rate-limited gateway      *)
(* (src/api/client.py), the collectors (src/collectors/*.py) and the       *)
(* tables they write (src/db/init_db.py).                                  *)
(*                                                                         *)
(* The store is one variable per table, each a set of rows.  The upstream  *)
(* source is the variable `upstream`: what the gateway would return to the *)
(* next call (a payload, or "fail" when the call raises after its          *)
(* retries).  It changes between runs by the Upstream* actions; a          *)
(* collector run is one action that reads it.  `ret` is what the last      *)
(* operation returned.  `fixture` names the seeded store a behaviour       *)
(* starts from, as the seeded_db fixtures of src/tests do.                 *)
(***************************************************************************)
EXTENDS Integers, Sequences, FiniteSets, TLC

VARIABLES fixture, upstream, teams, batter_stats, pitcher_stats,
          batter_game_logs, pitcher_game_logs, schedule, player_injuries,
          venues, starting_lineups, park_factors,
          ret, trace

tables == <<teams, batter_stats, pitcher_stats, batter_game_logs,
            pitcher_game_logs, schedule, player_injuries,
            venues, starting_lineups, park_factors>>

vars == <<fixture, upstream, teams, batter_stats, pitcher_stats,
          batter_game_logs, pitcher_game_logs, schedule, player_injuries,
          venues, starting_lineups, park_factors,
          ret, trace>>

None == "None"

NoRet == [op |-> "none"]

(***************************************************************************)
(* Configuration                                                           *)
(***************************************************************************)
CURRENT_SEASON == "2026"

\* delay is 1.0 s; times are counted in seconds
APIConfig == [timeout |-> 30, delay |-> 1, max_retries |-> 3]

(***************************************************************************)
(* Gateway: MLBAPIClient                                                   *)
(***************************************************************************)
Methods == {"get_player_stats", "get_game_log", "get_schedule", "get_roster",
            "get_teams", "get_roster_data", "get_team_full_roster",
            "get_boxscore_data", "get_player_hitting_stats",
            "get_player_pitching_stats", "get_hitting_game_log",
            "get_pitching_game_log", "get_player_game_log_by_season"}

Event(ev, arg, val) == [ev |-> ev, arg |-> arg, val |-> val]

\* MLBAPIClient.__init__ with one more attempt than configured
retry_strategy_extra ==
    [max_retries |-> APIConfig.max_retries + 1,
     base_delay |-> APIConfig.delay,
     exponential_backoff |-> TRUE]

\* MLBAPIClient.__init__ building the wrapper with exponential_backoff=False
retry_strategy_flat ==
    [max_retries |-> APIConfig.max_retries,
     base_delay |-> APIConfig.delay,
     exponential_backoff |-> FALSE]

retry_strategy ==
    [max_retries |-> APIConfig.max_retries,
     base_delay |-> APIConfig.delay,
     exponential_backoff |-> TRUE]

rate_limit == <<Event("sleep", "rate_limit", APIConfig.delay)>>

\* a _call that forgets its rate-limit sleep on the historical game-log endpoint
call_unlimited(method) ==
    IF method = "get_player_game_log_by_season"
    THEN <<Event("upstream", method, 0)>>
    ELSE rate_limit \o <<Event("upstream", method, 0)>>

\* the closure _call of every public method: sleep, then one upstream call
call(method) == rate_limit \o <<Event("upstream", method, 0)>>

\* what one attempt of the upstream source answers: a value or an error
Outcomes == [ok : {TRUE}, val : {"r1", "r2"}] \cup [ok : {FALSE}, val : {"e1", "e2"}]

Attempts == 1 .. (APIConfig.max_retries + 1)

RECURSIVE Pow2(_)
Pow2(n) == IF n <= 0 THEN 1 ELSE 2 * Pow2(n - 1)

backoff(attempt) ==
    IF retry_strategy.exponential_backoff
    THEN retry_strategy.base_delay * Pow2(attempt - 1)
    ELSE retry_strategy.base_delay

\* RetryStrategy.execute(operation, on_retry): `operation` is given by the
\* events one call of it makes, `outcomes` by what each attempt answers
RECURSIVE execute_from(_, _, _, _)
execute_from(operation, outcomes, attempt, acc) ==
    LET tr == acc \o operation
        o == outcomes[attempt]
    IN  IF o.ok
        THEN [trace |-> tr, raised |-> FALSE, value |-> o.val, attempts |-> attempt]
        ELSE IF attempt < retry_strategy.max_retries
             THEN execute_from(operation, outcomes, attempt + 1,
                      tr \o <<Event("sleep", "backoff", backoff(attempt)),
                              Event("on_retry", o.val, attempt)>>)
             ELSE [trace |-> tr, raised |-> TRUE, value |-> o.val, attempts |-> attempt]

execute(operation, outcomes) == execute_from(operation, outcomes, 1, <<>>)

\* the upstream source changes what it will answer to one attempt
UpstreamSetOutcome ==
    /\ fixture = "gateway"
    /\ \E k \in Attempts, o \in Outcomes :
         /\ upstream[k] # o
         /\ upstream' = [upstream EXCEPT ![k] = o]
    /\ ret' = NoRet
    /\ trace' = <<>>
    /\ UNCHANGED <<fixture, tables>>

\* one public gateway method, called once by a collector: attempt k is
\* answered by upstream[k]
GatewayCall ==
    /\ fixture = "gateway"
    /\ \E method \in Methods :
         LET r == execute(call(method), upstream)
         IN  /\ trace' = r.trace
             /\ ret' = [op |-> "gateway", method |-> method,
                        raised |-> r.raised, value |-> r.value]
    /\ UNCHANGED <<fixture, upstream, tables>>

InitGateway ==
    /\ fixture = "gateway"
    /\ upstream = [k \in Attempts |-> [ok |-> TRUE, val |-> "r1"]]
    /\ teams = {} /\ batter_stats = {} /\ pitcher_stats = {}
    /\ batter_game_logs = {} /\ pitcher_game_logs = {}
    /\ schedule = {} /\ player_injuries = {}
    /\ venues = {} /\ starting_lineups = {} /\ park_factors = {}
    /\ ret = NoRet
    /\ trace = <<>>

NextGateway == UpstreamSetOutcome \/ GatewayCall

SpecGateway == InitGateway /\ [][NextGateway]_vars

(***************************************************************************)
(* Claims on the gateway                                                   *)
(***************************************************************************)
UpstreamCalls(tr) == {i \in DOMAIN tr : tr[i].ev = "upstream"}

FirstOk(outcomes) ==
    IF \E k \in 1 .. APIConfig.max_retries : outcomes[k].ok
    THEN CHOOSE k \in 1 .. APIConfig.max_retries :
             outcomes[k].ok /\ \A j \in 1 .. (k - 1) : ~outcomes[j].ok
    ELSE 0

\* C7: execute attempts the operation at most max_retries times, returns the
\* result of the first successful attempt and attempts nothing after it, and
\* when every attempt fails raises the failure of the last attempt unchanged.
C7_BoundedRetry ==
    ret.op = "gateway" =>
        LET n == Cardinality(UpstreamCalls(trace))
            k == FirstOk(upstream)
        IN  /\ n <= APIConfig.max_retries
            /\ k > 0 => (~ret.raised /\ ret.value = upstream[k].val /\ n = k)
            /\ k = 0 => (/\ ret.raised
                         /\ n = APIConfig.max_retries
                         /\ ret.value = upstream[APIConfig.max_retries].val)

\* every attempt failed, the last with another error than the first
C7_Witness ==
    /\ ret.op = "gateway"
    /\ ret.raised
    /\ upstream[1].val = "e1"
    /\ ret.value = "e2"
    /\ Cardinality(UpstreamCalls(trace)) = APIConfig.max_retries

\* C8: every upstream call of the gateway is immediately preceded by one
\* rate-limit sleep of the configured delay, on every method and every attempt.
C8_SleepBeforeEveryCall ==
    \A i \in DOMAIN trace :
        trace[i].ev = "upstream" =>
            /\ i > 1
            /\ trace[i - 1] = Event("sleep", "rate_limit", APIConfig.delay)

\* the historical game-log endpoint retried twice: three calls, three sleeps
C8_Witness ==
    /\ ret.op = "gateway"
    /\ ret.method = "get_player_game_log_by_season"
    /\ Cardinality(UpstreamCalls(trace)) = APIConfig.max_retries
    /\ Cardinality({i \in DOMAIN trace : trace[i] = Event("sleep", "rate_limit", APIConfig.delay)})
           = APIConfig.max_retries

\* the position in tr of the k-th upstream call
NthUpstream(tr, k) ==
    CHOOSE i \in UpstreamCalls(tr) :
        Cardinality({j \in UpstreamCalls(tr) : j <= i}) = k

Between(tr, a, b, ev) == {i \in (a + 1) .. (b - 1) : tr[i].ev = ev}

\* C21: every failed attempt k that is followed by a retry is followed, before
\* attempt k+1 starts, by one wait of base_delay * 2^(k-1) and one
\* on_retry(k, error of attempt k); on_retry is invoked neither after a
\* successful attempt nor after the last failed one, so there are as many
\* on_retry calls as attempts minus one.
C21_RetryOrdering ==
    ret.op = "gateway" =>
        LET n == Cardinality(UpstreamCalls(trace))
            last == NthUpstream(trace, n)
        IN  /\ Cardinality({i \in DOMAIN trace : trace[i].ev = "on_retry"}) = n - 1
            /\ \A i \in DOMAIN trace : trace[i].ev = "on_retry" => i < last
            /\ \A k \in 1 .. (n - 1) :
                 LET a == NthUpstream(trace, k)
                     b == NthUpstream(trace, k + 1)
                 IN  /\ ~upstream[k].ok
                     /\ \E i \in Between(trace, a, b, "on_retry") :
                          /\ Between(trace, a, b, "on_retry") = {i}
                          /\ trace[i] = Event("on_retry", upstream[k].val, k)
                     /\ \E i \in {j \in Between(trace, a, b, "sleep") :
                                      trace[j].arg = "backoff"} :
                          /\ {j \in Between(trace, a, b, "sleep") :
                                  trace[j].arg = "backoff"} = {i}
                          /\ trace[i].val = APIConfig.delay * 2 ^ (k - 1)

\* two failures with different errors, then a success on the third attempt:
\* on_retry(1, e1) and on_retry(2, e2), nothing after the success
C21_Witness ==
    /\ ret.op = "gateway"
    /\ ~ret.raised
    /\ upstream[1] = [ok |-> FALSE, val |-> "e1"]
    /\ upstream[2] = [ok |-> FALSE, val |-> "e2"]
    /\ Cardinality(UpstreamCalls(trace)) = 3
    /\ Cardinality({i \in DOMAIN trace : trace[i].ev = "on_retry"}) = 2


(***************************************************************************)
(* The store: helpers for the SQL the collectors run                       *)
(***************************************************************************)
RECURSIVE Ascending(_)
\* the ids of a set in ascending order (SQLite returns rows of an INTEGER
\* PRIMARY KEY table in key order)
Ascending(S) ==
    IF S = {} THEN <<>>
    ELSE LET m == CHOOSE x \in S : \A y \in S : x <= y
         IN  <<m>> \o Ascending(S \ {m})

\* the rows the test fixtures seed: INSERT INTO teams (147, NYY), (111, BOS)
SeededTeams ==
    {[team_id |-> 147, name |-> "New York Yankees", abbreviation |-> "NYY",
      league |-> "AL", division |-> "East"],
     [team_id |-> 111, name |-> "Boston Red Sox", abbreviation |-> "BOS",
      league |-> "AL", division |-> "East"]}

TeamIds == {t.team_id : t \in SeededTeams}

Players == {1, 2}

\* the team whose roster lists a player
TeamOf(p) == IF p = 1 THEN 111 ELSE 147

\* the largest gamesPlayed the upstream source reports
MaxGamesPlayed == 1

Raises == [raises |-> TRUE]

Returns(data) == [raises |-> FALSE, data |-> data]

(***************************************************************************)
(* Numbers in payloads: int() and float() of strings                       *)
(***************************************************************************)
Digit == [c \in {"0", "1", "2", "3", "4", "5", "6", "7", "8", "9"} |->
            CASE c = "0" -> 0 [] c = "1" -> 1 [] c = "2" -> 2 [] c = "3" -> 3
              [] c = "4" -> 4 [] c = "5" -> 5 [] c = "6" -> 6 [] c = "7" -> 7
              [] c = "8" -> 8 [] c = "9" -> 9]

RECURSIVE digits_value(_, _)
digits_value(chars, acc) ==
    IF chars = <<>> THEN acc
    ELSE digits_value(Tail(chars), 10 * acc + Digit[Head(chars)])

\* int(text) of a string given as its characters: the number, or ValueError
int_of(chars) ==
    IF chars = <<>> \/ \E i \in DOMAIN chars : chars[i] \notin DOMAIN Digit
    THEN [ok |-> FALSE, value |-> 0]
    ELSE [ok |-> TRUE, value |-> digits_value(chars, 0)]

\* the decimals w.d whose nearest double lies below them (the others with
\* d # 0 lie above; whole numbers are exact)
BelowDecimal ==
    {<<1, 2>>, <<4, 1>>, <<5, 1>>, <<6, 1>>, <<7, 1>>, <<8, 1>>, <<8, 2>>,
     <<9, 1>>, <<9, 2>>, <<10, 1>>, <<10, 2>>, <<11, 1>>, <<11, 2>>,
     <<12, 1>>, <<12, 2>>, <<13, 1>>, <<13, 2>>, <<14, 1>>, <<14, 2>>,
     <<15, 1>>, <<15, 2>>}

\* the double nearest to w.d, in thousandths: one thousandth stands for the
\* representation error, of which only the sign matters
double_of(w, d) ==
    1000 * w + 100 * d
        + (IF d = 0 THEN 0 ELSE IF <<w, d>> \in BelowDecimal THEN -1 ELSE 1)

\* a float value, and a string, as the argument of float()
Float(milli) == [kind |-> "float", milli |-> milli]

Str(chars) == [kind |-> "str", chars |-> chars]

\* float(x): a float is itself; a string "w", "w.d" is the nearest double
float_of(x) ==
    IF x.kind = "float" THEN x.milli
    ELSE LET dots == {i \in DOMAIN x.chars : x.chars[i] = "."}
         IN  IF dots = {} THEN double_of(digits_value(x.chars, 0), 0)
             ELSE LET dot == CHOOSE i \in dots : TRUE
                  IN  double_of(digits_value(SubSeq(x.chars, 1, dot - 1), 0),
                                digits_value(SubSeq(x.chars, dot + 1, Len(x.chars)), 0))

\* round() of a non-negative float in thousandths: to the nearest integer,
\* halves to the even one
round_of(milli) ==
    LET q == milli \div 1000
        r == milli % 1000
    IN  IF r > 500 THEN q + 1
        ELSE IF r < 500 THEN q
        ELSE IF q % 2 = 0 THEN q ELSE q + 1

\* text.replace(".", "0.", 1): the first point becomes "0."
replace_point(chars) ==
    LET dots == {i \in DOMAIN chars : chars[i] = "."}
    IN  IF dots = {} THEN chars
        ELSE LET dot == CHOOSE i \in dots : \A j \in dots : i <= j
             IN  SubSeq(chars, 1, dot - 1) \o <<"0", ".">>
                     \o SubSeq(chars, dot + 1, Len(chars))

\* float(text) of a decimal with at most three digits after the point, in
\* thousandths: ".316" is 316 and "1.020" is 1020
decimal_value(chars) ==
    LET dots == {i \in DOMAIN chars : chars[i] = "."}
    IN  IF dots = {} THEN 1000 * digits_value(chars, 0)
        ELSE LET dot == CHOOSE i \in dots : TRUE
                 after == SubSeq(chars, dot + 1, Len(chars))
                 padded == after \o SubSeq(<<"0", "0", "0">>, 1, 3 - Len(after))
             IN  1000 * digits_value(SubSeq(chars, 1, dot - 1), 0)
                     + digits_value(padded, 0)

(***************************************************************************)
(* Upstream payloads of the season-stat collectors                         *)
(***************************************************************************)
\* the fixtures of the season-stat collectors: the plain ones vary the
\* statistics, the others vary the positions
BatterStatsFixtures == {"batter_stats", "batter_stats_positions"}

PitcherStatsFixtures == {"pitcher_stats", "pitcher_stats_positions"}

PositionFixtures == {"batter_stats_positions", "pitcher_stats_positions"}

\* the position abbreviations of roster entries; None: no position at all
Positions ==
    IF fixture \in PositionFixtures THEN {"P", "CF", None} ELSE {"P", "CF"}

\* a roster entry; None stands for an entry that carries no position
RosterEntry(p, pos) ==
    IF pos = None THEN [person |-> [id |-> p]]
    ELSE [person |-> [id |-> p], position |-> [abbreviation |-> pos]]

\* entry.get("position", {}).get("abbreviation", "")
pos_abbrev_of(entry) ==
    IF "position" \in DOMAIN entry THEN entry.position.abbreviation ELSE ""

\* what get_roster_data(team) may answer: an error, an empty roster, or the
\* team's player at some position
RosterAnswers(t) ==
    {Raises, Returns(<<>>)}
        \cup {Returns(<<RosterEntry(p, pos)>>) :
                  p \in {q \in Players : TeamOf(q) = t},
                  pos \in Positions}

SeasonBlock(stat) == [type |-> [displayName |-> "season"], stats |-> stat]

HittingStats == [gamesPlayed : 0 .. MaxGamesPlayed, hits : 0 .. 1]

\* what get_player_hitting_stats(player) may answer: an error, no stat block,
\* or one "season" block
HittingAnswers ==
    {Raises, Returns([stats |-> <<>>])}
        \cup {Returns([stats |-> <<SeasonBlock(st)>>]) :
                  st \in IF fixture \in PositionFixtures
                         THEN {x \in HittingStats : x.gamesPlayed = 1 /\ x.hits = 1}
                         ELSE HittingStats}

PitchingStats == [gamesPlayed : 0 .. MaxGamesPlayed, gamesStarted : 0 .. MaxGamesPlayed]

PitchingAnswers ==
    {Raises, Returns([stats |-> <<>>])}
        \cup {Returns([stats |-> <<SeasonBlock(st)>>]) :
                  st \in IF fixture \in PositionFixtures
                         THEN {x \in PitchingStats :
                                 x.gamesPlayed = 1 /\ x.gamesStarted = 1}
                         ELSE PitchingStats}

\* the rate statistics of a hitting payload, as text and as numbers
RateKeys == {"avg", "obp", "slg", "ops"}

RateValues ==
    {Str(<<".", "3", "1", "6">>), Str(<<"1", ".", "0", "2", "0">>),
     Float(316), Float(1020)}

\* a season block that reports one rate statistic, the others being ".000"
RateStats ==
    {[k \in RateKeys \cup {"gamesPlayed", "hits"} |->
         CASE k = "gamesPlayed" -> g
           [] k = "hits" -> 1
           [] k = key -> v
           [] OTHER -> Str(<<".", "0", "0", "0">>)] :
     g \in 1 .. 2, key \in RateKeys, v \in RateValues}

RateAnswers ==
    {Raises} \cup {Returns([stats |-> <<SeasonBlock(st)>>, bat_side |-> "Right"]) :
                      st \in RateStats}

\* the pitch_hand of a pitching payload
PitchHands == {"Left", "Right", "Switch", "Either"}

HandAnswers ==
    {Raises}
        \cup {Returns([stats |-> <<SeasonBlock([gamesPlayed |-> g, gamesStarted |-> 1])>>]) :
                  g \in 1 .. 2}
        \cup {Returns([stats |-> <<SeasonBlock([gamesPlayed |-> g, gamesStarted |-> 1])>>,
                       pitch_hand |-> h]) : g \in 1 .. 2, h \in PitchHands}

get_roster_data(team_id) == upstream.roster[team_id]

get_player_hitting_stats(player_id) == upstream.hitting[player_id]

get_player_pitching_stats(player_id) == upstream.pitching[player_id]

\* a position filter that also takes an entry without abbreviation for a pitcher
is_pitcher_or_unknown(pos_abbrev) == pos_abbrev \in {"P", ""}

\* `pos_abbrev == "P"`: the batter collector skips it, the pitcher collector
\* skips everything else
is_pitcher(pos_abbrev) == pos_abbrev = "P"

\* the stats of the first block whose type.displayName is "season", or None
RECURSIVE find_season(_)
find_season(stats_list) ==
    IF stats_list = <<>> THEN <<>>
    ELSE IF Head(stats_list).type.displayName = "season"
         THEN <<Head(stats_list).stats>>
         ELSE find_season(Tail(stats_list))

(***************************************************************************)
(* BatterStatsCollector                                                    *)
(***************************************************************************)
\* _should_update that rewrites every fetched player
batter_should_update_always(table, player_id, current_games) == TRUE

\* BatterStatsCollector._should_update
batter_should_update(table, player_id, current_games) ==
    LET row == {r \in table : r.player_id = player_id}
    IN  IF row = {} THEN TRUE
        ELSE (CHOOSE r \in row : TRUE).games_played # current_games

BAT_SIDE_MAP ==
    [raw \in {"Left", "Right", "Switch"} |->
        CASE raw = "Left" -> "L" [] raw = "Right" -> "R" [] raw = "Switch" -> "S"]

\* BAT_SIDE_MAP.get(bat_side_raw, bat_side_raw) of stats_data.get("bat_side", "")
bats_of(stats_data) ==
    LET bat_side_raw == IF "bat_side" \in DOMAIN stats_data THEN stats_data.bat_side
                        ELSE ""
    IN  IF bat_side_raw \in DOMAIN BAT_SIDE_MAP THEN BAT_SIDE_MAP[bat_side_raw]
        ELSE bat_side_raw

\* float(stat.get(key, ".000").replace(".", "0.", 1)) when the value is a
\* string, float(stat.get(key, 0)) otherwise; in thousandths
rate_stat(stat, key) ==
    IF key \notin DOMAIN stat THEN 0
    ELSE IF stat[key].kind = "str" THEN decimal_value(replace_point(stat[key].chars))
    ELSE stat[key].milli

\* INSERT OR REPLACE INTO batter_stats / pitcher_stats (player_id PRIMARY KEY)
replace_stats(table, row) == {r \in table : r.player_id # row.player_id} \cup {row}

\* the body of `for entry in roster` of BatterStatsCollector.collect
batter_stats_entry(acc, team_id, entry) ==
    LET player_id == entry.person.id
        pos_abbrev == pos_abbrev_of(entry)
        stats_data == get_player_hitting_stats(player_id)
        called == [acc EXCEPT !.calls =
                      Append(@, <<"get_player_hitting_stats", player_id>>)]
    IN  IF is_pitcher(pos_abbrev) THEN acc
        ELSE IF stats_data.raises THEN called
        ELSE IF stats_data.data.stats = <<>> THEN called
        ELSE LET found == find_season(stats_data.data.stats)
             IN  IF found = <<>> THEN called
                 ELSE LET stat == found[1]
                          games_played == stat.gamesPlayed
                      IN  IF ~batter_should_update(acc.table, player_id, games_played)
                          THEN called
                          ELSE [called EXCEPT
                                  !.table = replace_stats(acc.table,
                                    [player_id |-> player_id, team_id |-> team_id,
                                     position |-> pos_abbrev, season |-> CURRENT_SEASON,
                                     games_played |-> games_played,
                                     hits |-> stat.hits,
                                     batting_avg |-> rate_stat(stat, "avg"),
                                     obp |-> rate_stat(stat, "obp"),
                                     slg |-> rate_stat(stat, "slg"),
                                     ops |-> rate_stat(stat, "ops"),
                                     bats |-> bats_of(stats_data.data)]),
                                  !.count = acc.count + 1]

RECURSIVE batter_stats_roster(_, _, _)
batter_stats_roster(acc, team_id, roster) ==
    IF roster = <<>> THEN acc
    ELSE batter_stats_roster(batter_stats_entry(acc, team_id, Head(roster)),
                             team_id, Tail(roster))

\* the body of `for team_id in team_ids` of BatterStatsCollector.collect
RECURSIVE batter_stats_teams(_, _)
batter_stats_teams(acc, team_ids) ==
    IF team_ids = <<>> THEN acc
    ELSE LET roster == get_roster_data(Head(team_ids))
         IN  IF roster.raises
             THEN batter_stats_teams(acc, Tail(team_ids))
             ELSE batter_stats_teams(
                      batter_stats_roster(acc, Head(team_ids), roster.data),
                      Tail(team_ids))

\* BatterStatsCollector.collect()
BatterStatsCollect ==
    /\ fixture \in BatterStatsFixtures \cup {"batter_stats_rates"}
    /\ LET team_ids == Ascending({t.team_id : t \in teams})
           done == batter_stats_teams([table |-> batter_stats, count |-> 0,
                                       calls |-> <<>>], team_ids)
       IN  /\ batter_stats' = done.table
           /\ ret' = [op |-> "BatterStatsCollector.collect", raised |-> FALSE,
                      count |-> done.count, pre |-> batter_stats,
                      calls |-> done.calls]
    /\ UNCHANGED <<fixture, upstream, teams, pitcher_stats, batter_game_logs,
                   pitcher_game_logs, schedule, player_injuries, venues,
                   starting_lineups, park_factors, trace>>

(***************************************************************************)
(* PitcherStatsCollector                                                   *)
(***************************************************************************)
\* PitcherStatsCollector._should_update
pitcher_should_update(table, player_id, current_games) ==
    LET row == {r \in table : r.player_id = player_id}
    IN  IF row = {} THEN TRUE
        ELSE (CHOOSE r \in row : TRUE).games_played # current_games

\* the role with a strict comparison: exactly half the games started is RP
role_strict(games_played, games_started) ==
    IF games_played > 0 /\ games_started * 1000 > games_played * 500
    THEN "SP" ELSE "RP"

\* SP when games_started >= games_played * 0.5 and games_played > 0; the
\* float product is exact, here in thousandths
role(games_played, games_started) ==
    IF games_played > 0 /\ games_started * 1000 >= games_played * 500
    THEN "SP" ELSE "RP"

\* stats_data.get("pitch_hand", "") with Left stored as L and Right as R
throws_of(stats_data) ==
    LET throws == IF "pitch_hand" \in DOMAIN stats_data THEN stats_data.pitch_hand
                  ELSE ""
    IN  IF throws = "Left" THEN "L"
        ELSE IF throws = "Right" THEN "R"
        ELSE throws

\* the body of `for entry in roster` of PitcherStatsCollector.collect
pitcher_stats_entry(acc, team_id, entry) ==
    LET player_id == entry.person.id
        pos_abbrev == pos_abbrev_of(entry)
        stats_data == get_player_pitching_stats(player_id)
        called == [acc EXCEPT !.calls =
                      Append(@, <<"get_player_pitching_stats", player_id>>)]
    IN  IF ~is_pitcher(pos_abbrev) THEN acc
        ELSE IF stats_data.raises THEN called
        ELSE IF stats_data.data.stats = <<>> THEN called
        ELSE LET found == find_season(stats_data.data.stats)
             IN  IF found = <<>> THEN called
                 ELSE LET stat == found[1]
                          games_played == stat.gamesPlayed
                      IN  IF ~pitcher_should_update(acc.table, player_id, games_played)
                          THEN called
                          ELSE [called EXCEPT
                                  !.table = replace_stats(acc.table,
                                    [player_id |-> player_id, team_id |-> team_id,
                                     position |-> role(games_played, stat.gamesStarted),
                                     season |-> CURRENT_SEASON,
                                     games_played |-> games_played,
                                     games_started |-> stat.gamesStarted,
                                     throws |-> throws_of(stats_data.data)]),
                                  !.count = acc.count + 1]

RECURSIVE pitcher_stats_roster(_, _, _)
pitcher_stats_roster(acc, team_id, roster) ==
    IF roster = <<>> THEN acc
    ELSE pitcher_stats_roster(pitcher_stats_entry(acc, team_id, Head(roster)),
                              team_id, Tail(roster))

\* the body of `for team_id in team_ids` of PitcherStatsCollector.collect
RECURSIVE pitcher_stats_teams(_, _)
pitcher_stats_teams(acc, team_ids) ==
    IF team_ids = <<>> THEN acc
    ELSE LET roster == get_roster_data(Head(team_ids))
         IN  IF roster.raises
             THEN pitcher_stats_teams(acc, Tail(team_ids))
             ELSE pitcher_stats_teams(
                      pitcher_stats_roster(acc, Head(team_ids), roster.data),
                      Tail(team_ids))

\* PitcherStatsCollector.collect()
PitcherStatsCollect ==
    /\ fixture \in PitcherStatsFixtures \cup {"pitcher_stats_hands"}
    /\ LET team_ids == Ascending({t.team_id : t \in teams})
           done == pitcher_stats_teams([table |-> pitcher_stats, count |-> 0,
                                        calls |-> <<>>], team_ids)
       IN  /\ pitcher_stats' = done.table
           /\ ret' = [op |-> "PitcherStatsCollector.collect", raised |-> FALSE,
                      count |-> done.count, pre |-> pitcher_stats,
                      calls |-> done.calls]
    /\ UNCHANGED <<fixture, upstream, teams, batter_stats, batter_game_logs,
                   pitcher_game_logs, schedule, player_injuries, venues,
                   starting_lineups, park_factors, trace>>

(***************************************************************************)
(* The upstream source of the season-stat collectors                       *)
(***************************************************************************)
UpstreamSetRoster ==
    /\ fixture \in BatterStatsFixtures \cup PitcherStatsFixtures
    /\ \E t \in TeamIds : \E r \in RosterAnswers(t) :
         /\ upstream.roster[t] # r
         /\ upstream' = [upstream EXCEPT !.roster[t] = r]
    /\ ret' = NoRet
    /\ UNCHANGED <<fixture, tables, trace>>

UpstreamSetHitting ==
    /\ fixture \in BatterStatsFixtures
    /\ \E p \in Players, a \in HittingAnswers :
         /\ upstream.hitting[p] # a
         /\ upstream' = [upstream EXCEPT !.hitting[p] = a]
    /\ ret' = NoRet
    /\ UNCHANGED <<fixture, tables, trace>>

UpstreamSetPitching ==
    /\ fixture \in PitcherStatsFixtures
    /\ \E p \in Players, a \in PitchingAnswers :
         /\ upstream.pitching[p] # a
         /\ upstream' = [upstream EXCEPT !.pitching[p] = a]
    /\ ret' = NoRet
    /\ UNCHANGED <<fixture, tables, trace>>

\* teams seeded, every other table empty, rosters empty, no stats served
InitStatsOf(fixtures) ==
    /\ fixture \in fixtures
    /\ upstream = [roster |-> [t \in TeamIds |-> Returns(<<>>)],
                   hitting |-> [p \in Players |-> Returns([stats |-> <<>>])],
                   pitching |-> [p \in Players |-> Returns([stats |-> <<>>])]]
    /\ teams = SeededTeams
    /\ batter_stats = {} /\ pitcher_stats = {}
    /\ batter_game_logs = {} /\ pitcher_game_logs = {}
    /\ schedule = {} /\ player_injuries = {}
    /\ venues = {} /\ starting_lineups = {} /\ park_factors = {}
    /\ ret = NoRet
    /\ trace = <<>>

InitStats == InitStatsOf(BatterStatsFixtures \cup PitcherStatsFixtures)

NextStats ==
    \/ UpstreamSetRoster
    \/ UpstreamSetHitting
    \/ UpstreamSetPitching
    \/ BatterStatsCollect
    \/ PitcherStatsCollect

SpecStats == InitStats /\ [][NextStats]_vars

\* the hitting payload of the rostered batter changes
UpstreamSetRates ==
    /\ fixture = "batter_stats_rates"
    /\ \E a \in RateAnswers :
         /\ upstream.hitting[1] # a
         /\ upstream' = [upstream EXCEPT !.hitting[1] = a]
    /\ ret' = NoRet
    /\ UNCHANGED <<fixture, tables, trace>>

\* the pitching payload of the rostered pitcher changes
UpstreamSetHand ==
    /\ fixture = "pitcher_stats_hands"
    /\ \E a \in HandAnswers :
         /\ upstream.pitching[1] # a
         /\ upstream' = [upstream EXCEPT !.pitching[1] = a]
    /\ ret' = NoRet
    /\ UNCHANGED <<fixture, tables, trace>>

\* teams seeded, player 1 on the roster of team 111: a centre fielder for the
\* batter collector, a pitcher for the pitcher collector
InitNormalize ==
    /\ fixture \in {"batter_stats_rates", "pitcher_stats_hands"}
    /\ upstream = [roster |-> [t \in TeamIds |->
                                 IF t = TeamOf(1)
                                 THEN Returns(<<RosterEntry(1,
                                          IF fixture = "batter_stats_rates"
                                          THEN "CF" ELSE "P")>>)
                                 ELSE Returns(<<>>)],
                   hitting |-> [p \in Players |-> Returns([stats |-> <<>>])],
                   pitching |-> [p \in Players |-> Returns([stats |-> <<>>])]]
    /\ teams = SeededTeams
    /\ batter_stats = {} /\ pitcher_stats = {}
    /\ batter_game_logs = {} /\ pitcher_game_logs = {}
    /\ schedule = {} /\ player_injuries = {}
    /\ venues = {} /\ starting_lineups = {} /\ park_factors = {}
    /\ ret = NoRet
    /\ trace = <<>>

NextNormalize ==
    \/ UpstreamSetRates
    \/ UpstreamSetHand
    \/ BatterStatsCollect
    \/ PitcherStatsCollect

SpecNormalize == InitNormalize /\ [][NextNormalize]_vars

(***************************************************************************)
(* Claims on the season-stat collectors                                    *)
(***************************************************************************)
\* the players some successfully fetched roster lists at a position p_ok accepts
Listed(p_ok(_)) ==
    {p \in Players :
        \E t \in {x.team_id : x \in teams} :
            /\ ~upstream.roster[t].raises
            /\ \E i \in DOMAIN upstream.roster[t].data :
                 /\ upstream.roster[t].data[i].person.id = p
                 /\ p_ok(pos_abbrev_of(upstream.roster[t].data[i]))}

IsBatterPos(pos) == pos # "P"

IsPitcherPos(pos) == pos = "P"

HasSeason(answer) ==
    /\ ~answer.raises
    /\ \E i \in DOMAIN answer.data.stats :
         answer.data.stats[i].type.displayName = "season"

FetchedSeason(answer) ==
    answer.data.stats[CHOOSE i \in DOMAIN answer.data.stats :
                          answer.data.stats[i].type.displayName = "season"].stats

\* the batters (pitchers) whose season stats the run fetched
BattersFetched == {p \in Listed(IsBatterPos) : HasSeason(upstream.hitting[p])}

PitchersFetched == {p \in Listed(IsPitcherPos) : HasSeason(upstream.pitching[p])}

RowsOf(table, p) == {r \in table : r.player_id = p}

Unchanged(pre, fetched(_), p) ==
    \E r \in RowsOf(pre, p) : r.games_played = fetched(p).gamesPlayed

HittingOf(p) == FetchedSeason(upstream.hitting[p])

PitchingOf(p) == FetchedSeason(upstream.pitching[p])

\* C1: a fetched player whose gamesPlayed equals the stored games_played keeps
\* its stored row, column for column, and is not counted; a fetched player with
\* no stored row or another stored value is written and counted.
C1_SkipUnchanged ==
    /\ ret.op = "BatterStatsCollector.collect" =>
         /\ \A p \in BattersFetched :
              IF Unchanged(ret.pre, HittingOf, p)
              THEN RowsOf(batter_stats, p) = RowsOf(ret.pre, p)
              ELSE \E r \in batter_stats :
                     /\ r.player_id = p
                     /\ r.games_played = HittingOf(p).gamesPlayed
                     /\ r.hits = HittingOf(p).hits
         /\ ret.count = Cardinality({p \in BattersFetched :
                                        ~Unchanged(ret.pre, HittingOf, p)})
    /\ ret.op = "PitcherStatsCollector.collect" =>
         /\ \A p \in PitchersFetched :
              IF Unchanged(ret.pre, PitchingOf, p)
              THEN RowsOf(pitcher_stats, p) = RowsOf(ret.pre, p)
              ELSE \E r \in pitcher_stats :
                     /\ r.player_id = p
                     /\ r.games_played = PitchingOf(p).gamesPlayed
                     /\ r.games_started = PitchingOf(p).gamesStarted
         /\ ret.count = Cardinality({p \in PitchersFetched :
                                        ~Unchanged(ret.pre, PitchingOf, p)})

\* a run that skips a batter whose other statistics moved while gamesPlayed
\* did not, and writes another batter
C1_Witness ==
    /\ ret.op = "BatterStatsCollector.collect"
    /\ ret.count = 1
    /\ \E p \in BattersFetched :
         \E r \in batter_stats :
            /\ r.player_id = p
            /\ r \in ret.pre
            /\ r.games_played = HittingOf(p).gamesPlayed
            /\ r.hits # HittingOf(p).hits

(***************************************************************************)
(* Game logs: upstream payloads                                            *)
(***************************************************************************)
\* the seeded stores of the game-log collectors
BatterLogFixtures ==
    {"batter_game_logs", "batter_game_logs_two_players", "batter_game_logs_traded"}

PitcherLogFixtures ==
    {"pitcher_game_logs", "pitcher_game_logs_two_players", "pitcher_game_logs_traded"}

\* stores whose schedule lacks a game and holds one the player's team is not in
TradedFixtures == {"batter_game_logs_traded", "pitcher_game_logs_traded"}

\* a nullable column: NULL, or a value
Null == <<>>

Some(v) == <<v>>

\* a YYYY-MM-DD date string as its first four characters and the rest
ISODate(year, rest) == [year |-> year, rest |-> rest]

\* the schedule rows the test fixtures seed (game 717001 at NYY, 717002 at BOS)
SeededSchedule ==
    {[game_id |-> 717001, game_date |-> ISODate("2026", "-04-01"), season |-> "2026",
      home_team_id |-> 147, away_team_id |-> 111,
      home_abbr |-> "NYY", away_abbr |-> "BOS", venue_id |-> Some(3313),
      home_score |-> Null, away_score |-> Null, status |-> "Final",
      home_probable_pitcher_id |-> Null, away_probable_pitcher_id |-> Null],
     [game_id |-> 717002, game_date |-> ISODate("2026", "-04-02"), season |-> "2026",
      home_team_id |-> 111, away_team_id |-> 147,
      home_abbr |-> "BOS", away_abbr |-> "NYY", venue_id |-> Some(3),
      home_score |-> Null, away_score |-> Null, status |-> "Final",
      home_probable_pitcher_id |-> Null, away_probable_pitcher_id |-> Null]}

\* a schedule holding game 717001 only, played by NYY and COL: the team_id
\* that batter_stats holds for a player traded since is in neither column
TradedSchedule ==
    {[game_id |-> 717001, game_date |-> ISODate("2026", "-04-01"), season |-> "2026",
      home_team_id |-> 147, away_team_id |-> 115,
      home_abbr |-> "NYY", away_abbr |-> "COL", venue_id |-> Some(3313),
      home_score |-> Null, away_score |-> Null, status |-> "Final",
      home_probable_pitcher_id |-> Null, away_probable_pitcher_id |-> Null]}

GameIds == {717001, 717002}

\* game dates are ISO strings, ordered as the days they name: a date is the
\* number of its day, and 0 stands for None
MaxDate == 2

Dates == 1 .. MaxDate

HISTORICAL_SEASON == "2025"

\* one split of a hitting game log
HittingSplits == [date : Dates, game : [gamePk : GameIds], stat : [hits : 0 .. 1]]

\* the inningsPitched strings of the splits
InningsPitched == {<<"6", ".", "0">>, <<"5", ".", "1">>}

\* one split of a pitching game log
PitchingSplits ==
    [date : Dates, game : [gamePk : GameIds], stat : [inningsPitched : InningsPitched]]

\* player_stat_data(..., type="gameLog"): one stat group holding the splits
StatData(splits) ==
    [stats |-> <<[type |-> [displayName |-> "gameLog"], stats |-> splits]>>]

\* statsapi.get("person", hydrate=stats(...)): people[0].stats[0].splits
RawPerson(splits) == [people |-> <<[stats |-> <<[splits |-> splits]>>]>>]

\* upstream.game_log[p] is the list of splits the source holds for player p,
\* or Raises; both endpoints serve it, each in its own shape
get_hitting_game_log(player_id) ==
    IF upstream.game_log[player_id].raises THEN Raises
    ELSE Returns(StatData(upstream.game_log[player_id].data))

get_pitching_game_log(player_id) ==
    IF upstream.game_log[player_id].raises THEN Raises
    ELSE Returns(StatData(upstream.game_log[player_id].data))

get_player_game_log_by_season(player_id, group, season) ==
    IF upstream.game_log[player_id].raises THEN Raises
    ELSE Returns(RawPerson(upstream.game_log[player_id].data))

RECURSIVE parse_player_stat_data_from(_)
parse_player_stat_data_from(groups) ==
    IF groups = <<>> THEN <<>>
    ELSE IF Head(groups).type.displayName = "gameLog"
         THEN Head(groups).stats
         ELSE parse_player_stat_data_from(Tail(groups))

\* _parse_player_stat_data
parse_player_stat_data(data) == parse_player_stat_data_from(data.stats)

\* _parse_raw_game_log
parse_raw_game_log(raw) ==
    IF raw.people = <<>> THEN <<>>
    ELSE IF raw.people[1].stats = <<>> THEN <<>>
         ELSE raw.people[1].stats[1].splits

SetMax(S) == CHOOSE x \in S : \A y \in S : y <= x

\* _get_last_game_date: MAX(game_date) of the player's rows of the season
get_last_game_date(table, player_id, season) ==
    LET dates == {r.game_date : r \in {x \in table : x.player_id = player_id
                                                       /\ x.season = season}}
    IN  IF dates = {} THEN 0 ELSE SetMax(dates)

\* _get_game_context with the two branches returning the player's own side
get_game_context_own_side(game_id, team_id) ==
    LET row == {g \in schedule : g.game_id = game_id}
    IN  IF row = {}
        THEN [opponent_id |-> Null, opponent_abbr |-> Null,
              is_home |-> Null, venue_id |-> Null]
        ELSE LET g == CHOOSE x \in row : TRUE
             IN  IF team_id = g.home_team_id
                 THEN [opponent_id |-> Some(g.home_team_id),
                       opponent_abbr |-> Some(g.home_abbr),
                       is_home |-> Some(1), venue_id |-> g.venue_id]
                 ELSE [opponent_id |-> Some(g.away_team_id),
                       opponent_abbr |-> Some(g.away_abbr),
                       is_home |-> Some(0), venue_id |-> g.venue_id]

\* _get_game_context: opponent id, opponent abbreviation, is_home, venue id
get_game_context(game_id, team_id) ==
    LET row == {g \in schedule : g.game_id = game_id}
    IN  IF row = {}
        THEN [opponent_id |-> Null, opponent_abbr |-> Null,
              is_home |-> Null, venue_id |-> Null]
        ELSE LET g == CHOOSE x \in row : TRUE
             IN  IF team_id = g.home_team_id
                 THEN [opponent_id |-> Some(g.away_team_id),
                       opponent_abbr |-> Some(g.away_abbr),
                       is_home |-> Some(1), venue_id |-> g.venue_id]
                 ELSE [opponent_id |-> Some(g.home_team_id),
                       opponent_abbr |-> Some(g.home_abbr),
                       is_home |-> Some(0), venue_id |-> g.venue_id]

\* a plain INSERT into a table without its UNIQUE(game_id, player_id)
insert_log(table, row) == table \cup {row}

\* INSERT OR REPLACE under UNIQUE(game_id, player_id)
insert_or_replace_log(table, row) ==
    {r \in table : ~(r.game_id = row.game_id /\ r.player_id = row.player_id)}
        \cup {row}

\* INSERT OR IGNORE under UNIQUE(game_id, player_id): the table and rowcount
insert_or_ignore_log(table, row) ==
    IF \E r \in table : r.game_id = row.game_id /\ r.player_id = row.player_id
    THEN table
    ELSE table \cup {row}

(***************************************************************************)
(* BatterGameLogCollector                                                  *)
(***************************************************************************)
\* the loop body counting every INSERT OR IGNORE it executes, ignored or not
batter_log_game_counting_attempts(acc, player, target_season, last_date, game) ==
    LET game_date == game.date
        game_id == game.game.gamePk
        ctx == get_game_context(game_id, player.team_id)
        row == [player_id |-> player.player_id, game_id |-> game_id,
                game_date |-> game_date, season |-> target_season,
                team_id |-> player.team_id,
                opponent_id |-> ctx.opponent_id,
                opponent_abbr |-> ctx.opponent_abbr,
                is_home |-> ctx.is_home,
                hits |-> game.stat.hits,
                venue_id |-> ctx.venue_id]
    IN  IF last_date # 0 /\ game_date <= last_date THEN acc
        ELSE [table |-> insert_or_ignore_log(acc.table, row), count |-> acc.count + 1]

\* the loop body with _get_last_game_date queried again for every game, so
\* the boundary moves with the rows the run itself inserts
batter_log_game_moving_boundary(acc, player, target_season, last_date, game) ==
    LET game_date == game.date
        game_id == game.game.gamePk
        moving == get_last_game_date(acc.table, player.player_id, target_season)
        ctx == get_game_context(game_id, player.team_id)
        row == [player_id |-> player.player_id, game_id |-> game_id,
                game_date |-> game_date, season |-> target_season,
                team_id |-> player.team_id,
                opponent_id |-> ctx.opponent_id,
                opponent_abbr |-> ctx.opponent_abbr,
                is_home |-> ctx.is_home,
                hits |-> game.stat.hits,
                venue_id |-> ctx.venue_id]
        after == insert_or_ignore_log(acc.table, row)
    IN  IF moving # 0 /\ game_date <= moving THEN acc
        ELSE [table |-> after,
              count |-> IF after # acc.table THEN acc.count + 1 ELSE acc.count]

\* the body of `for game in games` of BatterGameLogCollector.collect
batter_log_game(acc, player, target_season, last_date, game) ==
    LET game_date == game.date
        game_id == game.game.gamePk
        ctx == get_game_context(game_id, player.team_id)
        row == [player_id |-> player.player_id, game_id |-> game_id,
                game_date |-> game_date, season |-> target_season,
                team_id |-> player.team_id,
                opponent_id |-> ctx.opponent_id,
                opponent_abbr |-> ctx.opponent_abbr,
                is_home |-> ctx.is_home,
                hits |-> game.stat.hits,
                venue_id |-> ctx.venue_id]
        after == insert_or_ignore_log(acc.table, row)
    IN  IF last_date # 0 /\ game_date <= last_date THEN acc
        ELSE [table |-> after,
              count |-> IF after # acc.table THEN acc.count + 1 ELSE acc.count]

RECURSIVE batter_log_games(_, _, _, _, _)
batter_log_games(acc, player, target_season, last_date, games) ==
    IF games = <<>> THEN acc
    ELSE batter_log_games(
             batter_log_game(acc, player, target_season, last_date, Head(games)),
             player, target_season, last_date, Tail(games))

\* the player's iteration as a full refresh: the player's rows of the target
\* season are deleted before the fetched list is inserted
batter_log_player_refreshing(acc, player, historical_season) ==
    LET target_season == IF historical_season # None THEN historical_season
                         ELSE CURRENT_SEASON
        answer == IF historical_season # None
                  THEN get_player_game_log_by_season(player.player_id, "hitting",
                                                     historical_season)
                  ELSE get_hitting_game_log(player.player_id)
        kept == {r \in acc.table : ~(r.player_id = player.player_id
                                        /\ r.season = target_season)}
    IN  IF answer.raises THEN acc
        ELSE LET games == IF historical_season # None
                          THEN parse_raw_game_log(answer.data)
                          ELSE parse_player_stat_data(answer.data)
             IN  batter_log_games([table |-> kept, count |-> acc.count], player,
                                  target_season, 0, games)

\* the body of `for player_id, player_name, team_id in players`
batter_log_player(acc, player, historical_season) ==
    LET target_season == IF historical_season # None THEN historical_season
                         ELSE CURRENT_SEASON
        last_date == get_last_game_date(acc.table, player.player_id, target_season)
        answer == IF historical_season # None
                  THEN get_player_game_log_by_season(player.player_id, "hitting",
                                                     historical_season)
                  ELSE get_hitting_game_log(player.player_id)
    IN  IF answer.raises THEN acc
        ELSE LET games == IF historical_season # None
                          THEN parse_raw_game_log(answer.data)
                          ELSE parse_player_stat_data(answer.data)
             IN  batter_log_games(acc, player, target_season, last_date, games)

RECURSIVE batter_log_players(_, _, _)
batter_log_players(acc, player_ids, historical_season) ==
    IF player_ids = <<>> THEN acc
    ELSE batter_log_players(
             batter_log_player(acc,
                 CHOOSE r \in batter_stats : r.player_id = Head(player_ids),
                 historical_season),
             Tail(player_ids), historical_season)

\* BatterGameLogCollector.collect(historical_season)
BatterGameLogCollect ==
    /\ fixture \in BatterLogFixtures
    /\ \E historical_season \in {None, HISTORICAL_SEASON} :
         LET players == Ascending({r.player_id : r \in batter_stats})
             done == batter_log_players([table |-> batter_game_logs, count |-> 0],
                                        players, historical_season)
         IN  /\ batter_game_logs' = done.table
             /\ ret' = [op |-> "BatterGameLogCollector.collect", raised |-> FALSE,
                        historical_season |-> historical_season,
                        count |-> done.count, pre |-> batter_game_logs,
                        again |-> /\ ret.op = "BatterGameLogCollector.collect"
                                  /\ ret.historical_season = historical_season]
    /\ UNCHANGED <<fixture, upstream, teams, batter_stats, pitcher_stats,
                   pitcher_game_logs, schedule, player_injuries, venues,
                   starting_lineups, park_factors, trace>>

(***************************************************************************)
(* PitcherGameLogCollector                                                 *)
(***************************************************************************)
\* _ip_to_outs with int() in the place of round()
ip_to_outs_truncating(ip) ==
    LET ip_float == float_of(ip)
        whole == ip_float \div 1000
        fraction == ((ip_float - whole * 1000) * 10) \div 1000
    IN  whole * 3 + fraction

\* _ip_to_outs: whole innings are three outs each, the digit after the point
\* counts single outs
ip_to_outs(ip) ==
    LET ip_float == float_of(ip)
        whole == ip_float \div 1000
        fraction == round_of((ip_float - whole * 1000) * 10)
    IN  whole * 3 + fraction

\* the body of `for game in games` of PitcherGameLogCollector.collect
pitcher_log_game(acc, player, target_season, last_date, game) ==
    LET game_date == game.date
        game_id == game.game.gamePk
        ctx == get_game_context(game_id, player.team_id)
        ip == Float(float_of(Str(game.stat.inningsPitched)))
        row == [player_id |-> player.player_id, game_id |-> game_id,
                game_date |-> game_date, season |-> target_season,
                team_id |-> player.team_id,
                opponent_id |-> ctx.opponent_id,
                opponent_abbr |-> ctx.opponent_abbr,
                is_home |-> ctx.is_home,
                innings_pitched |-> ip,
                outs_recorded |-> ip_to_outs(ip),
                venue_id |-> ctx.venue_id]
        after == insert_or_ignore_log(acc.table, row)
    IN  IF last_date # 0 /\ game_date <= last_date THEN acc
        ELSE [table |-> after,
              count |-> IF after # acc.table THEN acc.count + 1 ELSE acc.count]

RECURSIVE pitcher_log_games(_, _, _, _, _)
pitcher_log_games(acc, player, target_season, last_date, games) ==
    IF games = <<>> THEN acc
    ELSE pitcher_log_games(
             pitcher_log_game(acc, player, target_season, last_date, Head(games)),
             player, target_season, last_date, Tail(games))

\* the body of `for player_id, player_name, team_id in players`
pitcher_log_player(acc, player, historical_season) ==
    LET target_season == IF historical_season # None THEN historical_season
                         ELSE CURRENT_SEASON
        last_date == get_last_game_date(acc.table, player.player_id, target_season)
        answer == IF historical_season # None
                  THEN get_player_game_log_by_season(player.player_id, "pitching",
                                                     historical_season)
                  ELSE get_pitching_game_log(player.player_id)
    IN  IF answer.raises THEN acc
        ELSE LET games == IF historical_season # None
                          THEN parse_raw_game_log(answer.data)
                          ELSE parse_player_stat_data(answer.data)
             IN  pitcher_log_games(acc, player, target_season, last_date, games)

RECURSIVE pitcher_log_players(_, _, _)
pitcher_log_players(acc, player_ids, historical_season) ==
    IF player_ids = <<>> THEN acc
    ELSE pitcher_log_players(
             pitcher_log_player(acc,
                 CHOOSE r \in pitcher_stats : r.player_id = Head(player_ids),
                 historical_season),
             Tail(player_ids), historical_season)

\* PitcherGameLogCollector.collect(historical_season)
PitcherGameLogCollect ==
    /\ fixture \in PitcherLogFixtures
    /\ \E historical_season \in {None, HISTORICAL_SEASON} :
         LET players == Ascending({r.player_id : r \in pitcher_stats})
             done == pitcher_log_players([table |-> pitcher_game_logs, count |-> 0],
                                         players, historical_season)
         IN  /\ pitcher_game_logs' = done.table
             /\ ret' = [op |-> "PitcherGameLogCollector.collect", raised |-> FALSE,
                        historical_season |-> historical_season,
                        count |-> done.count, pre |-> pitcher_game_logs,
                        again |-> /\ ret.op = "PitcherGameLogCollector.collect"
                                  /\ ret.historical_season = historical_season]
    /\ UNCHANGED <<fixture, upstream, teams, batter_stats, pitcher_stats,
                   batter_game_logs, schedule, player_injuries, venues,
                   starting_lineups, park_factors, trace>>

(***************************************************************************)
(* The upstream source of the game-log collectors                          *)
(***************************************************************************)
\* the splits the source may list: with two players seeded, games of one
\* date and one stat line
Splits ==
    CASE fixture = "batter_game_logs" -> HittingSplits
      [] fixture = "pitcher_game_logs" -> PitchingSplits
      [] fixture \in {"batter_game_logs_two_players", "batter_game_logs_traded"} ->
           {e \in HittingSplits : e.date = 1 /\ e.stat.hits = 1}
      [] fixture \in {"pitcher_game_logs_two_players", "pitcher_game_logs_traded"} ->
           {e \in PitchingSplits : e.date = 1 /\ e.stat.inningsPitched = <<"5", ".", "1">>}

LoggedPlayers ==
    IF fixture \in BatterLogFixtures THEN {r.player_id : r \in batter_stats}
    ELSE {r.player_id : r \in pitcher_stats}

\* a game is played: the player's log gains a split (at most two are listed)
UpstreamAppendSplit ==
    /\ fixture \in BatterLogFixtures \cup PitcherLogFixtures
    /\ \E p \in LoggedPlayers, e \in Splits :
         LET log == upstream.game_log[p]
         IN  /\ ~log.raises
             /\ Len(log.data) < 2
             /\ upstream' = [upstream EXCEPT !.game_log[p] = Returns(Append(log.data, e))]
    /\ ret' = NoRet
    /\ UNCHANGED <<fixture, tables, trace>>

\* the log is served again, empty, after an outage or a new listing
UpstreamClearLog ==
    /\ fixture \in BatterLogFixtures \cup PitcherLogFixtures
    /\ \E p \in LoggedPlayers :
         /\ upstream.game_log[p] # Returns(<<>>)
         /\ upstream' = [upstream EXCEPT !.game_log[p] = Returns(<<>>)]
    /\ ret' = NoRet
    /\ UNCHANGED <<fixture, tables, trace>>

\* the game-log call of a player starts to raise
UpstreamLogFails ==
    /\ fixture \in BatterLogFixtures \cup PitcherLogFixtures
    /\ \E p \in LoggedPlayers :
         /\ ~upstream.game_log[p].raises
         /\ upstream' = [upstream EXCEPT !.game_log[p] = Raises]
    /\ ret' = NoRet
    /\ UNCHANGED <<fixture, tables, trace>>

\* the players of the season-stat table: one, or one of each seeded team
SeededPlayers ==
    IF fixture \in {"batter_game_logs", "pitcher_game_logs"} THEN {1} ELSE Players

\* teams and schedule seeded, the season-stat table holds the players
InitGameLogOf(fixtures) ==
    /\ fixture \in fixtures
    /\ upstream = [game_log |-> [p \in Players |-> Returns(<<>>)]]
    /\ teams = SeededTeams
    /\ schedule = IF fixture \in TradedFixtures THEN TradedSchedule ELSE SeededSchedule
    /\ batter_stats = IF fixture \in BatterLogFixtures
                      THEN {[player_id |-> p, team_id |-> TeamOf(p), position |-> "CF",
                             season |-> CURRENT_SEASON, games_played |-> 1, hits |-> 1] :
                            p \in SeededPlayers}
                      ELSE {}
    /\ pitcher_stats = IF fixture \in PitcherLogFixtures
                       THEN {[player_id |-> p, team_id |-> TeamOf(p), position |-> "SP",
                              season |-> CURRENT_SEASON, games_played |-> 1,
                              games_started |-> 1] : p \in SeededPlayers}
                       ELSE {}
    /\ batter_game_logs = {} /\ pitcher_game_logs = {}
    /\ player_injuries = {}
    /\ venues = {} /\ starting_lineups = {} /\ park_factors = {}
    /\ ret = NoRet
    /\ trace = <<>>

InitGameLog ==
    InitGameLogOf((BatterLogFixtures \cup PitcherLogFixtures) \ TradedFixtures)

NextGameLog ==
    \/ UpstreamAppendSplit
    \/ UpstreamClearLog
    \/ UpstreamLogFails
    \/ BatterGameLogCollect
    \/ PitcherGameLogCollect

SpecGameLog == InitGameLog /\ [][NextGameLog]_vars

\* the game-log collectors on the stores of one player, whose payloads vary
\* in date and statistics
InitLogOrder == InitGameLogOf({"batter_game_logs", "pitcher_game_logs"})

SpecLogOrder == InitLogOrder /\ [][NextGameLog]_vars

\* the game-log collectors over every seeded schedule
InitContext == InitGameLogOf(BatterLogFixtures \cup PitcherLogFixtures)

SpecContext == InitContext /\ [][NextGameLog]_vars

(***************************************************************************)
(* ScheduleCollector                                                       *)
(***************************************************************************)
STATUS_MAP ==
    [raw \in {"Final", "Game Over", "Completed Early", "Scheduled", "Pre-Game",
              "Warmup", "Postponed", "Suspended", "Cancelled", "In Progress",
              "Manager Challenge", "Delayed", "Delayed Start"} |->
        CASE raw \in {"Final", "Game Over", "Completed Early"} -> "Final"
          [] raw \in {"Scheduled", "Pre-Game", "Warmup", "Delayed Start"} -> "Scheduled"
          [] raw \in {"Postponed", "Suspended", "Cancelled"} -> "Postponed"
          [] raw \in {"In Progress", "Manager Challenge", "Delayed"} -> "In Progress"]

\* STATUS_MAP.get(raw_status, raw_status)
normalize_status(raw_status) ==
    IF raw_status \in DOMAIN STATUS_MAP THEN STATUS_MAP[raw_status] ELSE raw_status

\* detailed states the source emits; the last one carries a reason
RawStatuses == {"Game Over", "Pre-Game", "Completed Early: Rain"}

ScoreLines == {[home_score |-> Some(3), away_score |-> Some(2)],
               [home_score |-> Some(5), away_score |-> Some(4)]}

\* one game of get_schedule's answer
ScheduleGame(game_id, raw_status, line) ==
    [game_id |-> game_id,
     game_date |-> IF game_id = 717001 THEN ISODate("2026", "-04-01")
                   ELSE ISODate("2026", "-04-02"),
     home_id |-> IF game_id = 717001 THEN 147 ELSE 111,
     away_id |-> IF game_id = 717001 THEN 111 ELSE 999,
     venue_id |-> IF game_id = 717001 THEN Some(3313) ELSE Some(3),
     home_score |-> line.home_score, away_score |-> line.away_score,
     status |-> raw_status,
     home_probable_pitcher |-> IF game_id = 717001 THEN "Gerrit Cole" ELSE "",
     away_probable_pitcher |-> ""]

ScheduleGames ==
    {ScheduleGame(g, st, line) : g \in GameIds, st \in RawStatuses, line \in ScoreLines}

\* the player search raises, finds nobody, finds a player, or answers with an
\* entry that carries no id
LookupAnswers == {Raises, Returns(<<>>), Returns(<<[id |-> 543037]>>),
                  Returns(<<[fullName |-> "Gerrit Cole"]>>)}

get_schedule(start_date, end_date) == upstream.schedule

\* statsapi.lookup_player, called directly by _resolve_pitcher_id
lookup_player(pitcher_name) == upstream.lookup

\* _get_team_abbreviations.get(team_id, "")
team_abbreviation(team_id) ==
    IF \E t \in teams : t.team_id = team_id
    THEN (CHOOSE t \in teams : t.team_id = team_id).abbreviation
    ELSE ""

\* _resolve_pitcher_id without its try/except around the lookup
resolve_pitcher_id_unguarded(pitcher_name) ==
    IF pitcher_name = "" THEN Returns(Null)
    ELSE LET results == lookup_player(pitcher_name)
         IN  IF results.raises THEN Raises
             ELSE IF results.data # <<>>
                  THEN Returns(IF "id" \in DOMAIN results.data[1]
                               THEN Some(results.data[1].id) ELSE Null)
                  ELSE Returns(Null)

\* _resolve_pitcher_id: what the call returns, or that it raises
resolve_pitcher_id(pitcher_name) ==
    IF pitcher_name = "" THEN Returns(Null)
    ELSE LET results == lookup_player(pitcher_name)
         IN  IF results.raises THEN Returns(Null)
             ELSE IF results.data # <<>>
                  THEN Returns(IF "id" \in DOMAIN results.data[1]
                               THEN Some(results.data[1].id) ELSE Null)
                  ELSE Returns(Null)

\* INSERT OR REPLACE INTO schedule, keyed by game_id
replace_game(table, row) == {r \in table : r.game_id # row.game_id} \cup {row}

\* the body of `for game in games` of ScheduleCollector.collect
schedule_game(acc, game) ==
    LET home_pitcher_id == resolve_pitcher_id(game.home_probable_pitcher)
        away_pitcher_id == resolve_pitcher_id(game.away_probable_pitcher)
        row == [game_id |-> game.game_id,
                game_date |-> game.game_date,
                season |-> game.game_date.year,
                home_team_id |-> game.home_id,
                away_team_id |-> game.away_id,
                home_abbr |-> team_abbreviation(game.home_id),
                away_abbr |-> team_abbreviation(game.away_id),
                venue_id |-> game.venue_id,
                home_score |-> game.home_score,
                away_score |-> game.away_score,
                status |-> normalize_status(game.status),
                home_probable_pitcher_id |-> home_pitcher_id.data,
                away_probable_pitcher_id |-> away_pitcher_id.data]
    IN  IF home_pitcher_id.raises \/ away_pitcher_id.raises
        THEN [acc EXCEPT !.raised = TRUE]
        ELSE [acc EXCEPT !.table = replace_game(acc.table, row),
                         !.count = acc.count + 1]

RECURSIVE schedule_games(_, _)
schedule_games(acc, games) ==
    IF games = <<>> \/ acc.raised THEN acc
    ELSE schedule_games(schedule_game(acc, Head(games)), Tail(games))

\* the fixtures of the schedule collector: the seeded store, and a store on
\* which init_database never ran, where every statement raises
\* sqlite3.OperationalError (no such table)
ScheduleFixtures == {"schedule", "schedule_uninitialized"}

store_initialized == fixture # "schedule_uninitialized"

\* ScheduleCollector.collect(start_date, end_date): the schedule is fetched,
\* the connection opened and the team abbreviations read before the `try`
\* whose `finally` closes the connection
ScheduleCollect ==
    /\ fixture \in ScheduleFixtures
    /\ LET games == get_schedule("start_date", "end_date")
           done == schedule_games([table |-> schedule, count |-> 0,
                                   raised |-> FALSE], games.data)
       IN  IF games.raises
           THEN /\ ret' = [op |-> "ScheduleCollector.collect", raised |-> TRUE,
                           count |-> 0, pre |-> schedule,
                           opened |-> FALSE, closed |-> FALSE, commits |-> 0]
                /\ UNCHANGED schedule
           ELSE IF ~store_initialized
           THEN /\ ret' = [op |-> "ScheduleCollector.collect", raised |-> TRUE,
                           count |-> 0, pre |-> schedule,
                           opened |-> TRUE, closed |-> FALSE, commits |-> 0]
                /\ UNCHANGED schedule
           ELSE IF done.raised
           THEN /\ ret' = [op |-> "ScheduleCollector.collect", raised |-> TRUE,
                           count |-> 0, pre |-> schedule,
                           opened |-> TRUE, closed |-> TRUE, commits |-> 0]
                /\ UNCHANGED schedule
           ELSE /\ schedule' = done.table
                /\ ret' = [op |-> "ScheduleCollector.collect", raised |-> FALSE,
                           count |-> done.count, pre |-> schedule,
                           opened |-> TRUE, closed |-> TRUE, commits |-> 1]
    /\ UNCHANGED <<fixture, upstream, teams, batter_stats, pitcher_stats,
                   batter_game_logs, pitcher_game_logs, player_injuries, venues,
                   starting_lineups, park_factors, trace>>

\* UPDATE schedule SET home_score, away_score, status WHERE game_id: the
\* table after the statement
update_game(table, game_id, home_score, away_score, status) ==
    {IF r.game_id = game_id
     THEN [r EXCEPT !.home_score = home_score, !.away_score = away_score,
                    !.status = status]
     ELSE r : r \in table}

\* the body of `for game in games` of ScheduleCollector.update_scores
update_scores_game(acc, game) ==
    LET status == normalize_status(game.status)
        rowcount == Cardinality({r \in acc.table : r.game_id = game.game_id})
    IN  IF status # "Final" THEN acc
        ELSE [table |-> update_game(acc.table, game.game_id, game.home_score,
                                    game.away_score, status),
              count |-> IF rowcount > 0 THEN acc.count + 1 ELSE acc.count]

RECURSIVE update_scores_games(_, _)
update_scores_games(acc, games) ==
    IF games = <<>> THEN acc
    ELSE update_scores_games(update_scores_game(acc, Head(games)), Tail(games))

\* ScheduleCollector.update_scores(game_date): every statement is inside the
\* `try`; the first UPDATE is the first statement on the store
UpdateScores ==
    /\ fixture \in ScheduleFixtures
    /\ LET games == get_schedule("game_date", "game_date")
           done == update_scores_games([table |-> schedule, count |-> 0], games.data)
           updates == \E i \in DOMAIN games.data :
                         normalize_status(games.data[i].status) = "Final"
       IN  IF games.raises
           THEN /\ ret' = [op |-> "ScheduleCollector.update_scores", raised |-> TRUE,
                           count |-> 0, pre |-> schedule,
                           opened |-> FALSE, closed |-> FALSE, commits |-> 0]
                /\ UNCHANGED schedule
           ELSE IF ~store_initialized /\ updates
           THEN /\ ret' = [op |-> "ScheduleCollector.update_scores", raised |-> TRUE,
                           count |-> 0, pre |-> schedule,
                           opened |-> TRUE, closed |-> TRUE, commits |-> 0]
                /\ UNCHANGED schedule
           ELSE /\ schedule' = done.table
                /\ ret' = [op |-> "ScheduleCollector.update_scores", raised |-> FALSE,
                           count |-> done.count, pre |-> schedule,
                           opened |-> TRUE, closed |-> TRUE, commits |-> 1]
    /\ UNCHANGED <<fixture, upstream, teams, batter_stats, pitcher_stats,
                   batter_game_logs, pitcher_game_logs, player_injuries, venues,
                   starting_lineups, park_factors, trace>>

\* the schedule of the requested dates lists one more game (at most two)
UpstreamAppendGame ==
    /\ fixture \in ScheduleFixtures
    /\ ~upstream.schedule.raises
    /\ Len(upstream.schedule.data) < 2
    /\ \E game \in ScheduleGames :
         upstream' = [upstream EXCEPT
                         !.schedule = Returns(Append(upstream.schedule.data, game))]
    /\ ret' = NoRet
    /\ UNCHANGED <<fixture, tables, trace>>

\* another date range is asked for, or the source recovers: no game listed
UpstreamClearSchedule ==
    /\ fixture \in ScheduleFixtures
    /\ upstream.schedule # Returns(<<>>)
    /\ upstream' = [upstream EXCEPT !.schedule = Returns(<<>>)]
    /\ ret' = NoRet
    /\ UNCHANGED <<fixture, tables, trace>>

\* the schedule call starts to raise, retries exhausted
UpstreamScheduleFails ==
    /\ fixture \in ScheduleFixtures
    /\ ~upstream.schedule.raises
    /\ upstream' = [upstream EXCEPT !.schedule = Raises]
    /\ ret' = NoRet
    /\ UNCHANGED <<fixture, tables, trace>>

\* the player search answers differently
UpstreamSetLookup ==
    /\ fixture \in ScheduleFixtures
    /\ \E answer \in LookupAnswers :
         /\ answer # upstream.lookup
         /\ upstream' = [upstream EXCEPT !.lookup = answer]
    /\ ret' = NoRet
    /\ UNCHANGED <<fixture, tables, trace>>

\* teams seeded, no game stored
InitScheduleOf(fixtures) ==
    /\ fixture \in fixtures
    /\ upstream = [schedule |-> Returns(<<>>), lookup |-> Returns(<<>>)]
    /\ teams = SeededTeams
    /\ schedule = {}
    /\ batter_stats = {} /\ pitcher_stats = {}
    /\ batter_game_logs = {} /\ pitcher_game_logs = {}
    /\ player_injuries = {}
    /\ venues = {} /\ starting_lineups = {} /\ park_factors = {}
    /\ ret = NoRet
    /\ trace = <<>>

InitSchedule == InitScheduleOf({"schedule"})

NextSchedule ==
    \/ UpstreamAppendGame
    \/ UpstreamClearSchedule
    \/ UpstreamScheduleFails
    \/ UpstreamSetLookup
    \/ ScheduleCollect
    \/ UpdateScores

SpecSchedule == InitSchedule /\ [][NextSchedule]_vars

\* the schedule collector on the seeded store and on the uninitialized one
InitConnections == InitScheduleOf(ScheduleFixtures)

SpecConnections == InitConnections /\ [][NextSchedule]_vars

(***************************************************************************)
(* InjuriesCollector                                                       *)
(***************************************************************************)
\* the ILF code labelled after its letters
IL_STATUS_MAP_code_as_label ==
    [code \in {"D7", "D10", "D15", "D60", "ILF"} |->
        CASE code = "D7" -> "IL-7"
          [] code = "D10" -> "IL-10"
          [] code = "D15" -> "IL-15"
          [] code = "D60" -> "IL-60"
          [] code = "ILF" -> "IL-F"]

IL_STATUS_MAP ==
    [code \in {"D7", "D10", "D15", "D60", "ILF"} |->
        CASE code = "D7" -> "IL-7"
          [] code = "D10" -> "IL-10"
          [] code = "D15" -> "IL-15"
          [] code = "D60" -> "IL-60"
          [] code = "ILF" -> "IL-60"]

\* status codes of a full roster: the injured lists, active, and no code
StatusCodes == {"D7", "D10", "D15", "D60", "ILF", "A", ""}

CollectionDates == {"2026-04-15", "2026-04-16"}

\* one entry of get_team_full_roster's answer
FullRosterEntry(p, code) == [person |-> [id |-> p, status |-> [code |-> code]]]

\* an entry whose person.status is null
MalformedRosterEntry(p) == [person |-> [id |-> p, status |-> Null]]

\* the fixtures of the injuries collector: well-formed rosters with every
\* status code, or a few codes and entries that can be malformed
InjuriesFixtures == {"injuries", "injuries_malformed"}

FullRosterAnswers(t) ==
    {Raises, Returns(<<>>)} \cup
    IF fixture = "injuries"
    THEN {Returns(<<FullRosterEntry(p, code)>>) :
             p \in {q \in Players : TeamOf(q) = t}, code \in StatusCodes}
    ELSE {Returns(<<FullRosterEntry(p, code)>>) :
             p \in {q \in Players : TeamOf(q) = t}, code \in {"D10", "A"}}
         \cup {Returns(<<MalformedRosterEntry(p)>>) :
                  p \in {q \in Players : TeamOf(q) = t}}

get_team_full_roster(team_id, season) == upstream.full_roster[team_id]

\* the key of player_injuries: one row per player and collection date
injury_key(row) == <<row.player_id, row.collection_date>>

\* INSERT OR IGNORE INTO player_injuries
ignore_injury(table, row) ==
    IF \E r \in table : injury_key(r) = injury_key(row) THEN table
    ELSE table \cup {row}

\* INSERT OR REPLACE INTO player_injuries
replace_injury(table, row) ==
    {r \in table : injury_key(r) # injury_key(row)} \cup {row}

\* the body of `for entry in roster` of InjuriesCollector.collect; a null
\* status has no .get: the AttributeError is caught nowhere and ends the run
injuries_entry(acc, team_id, collection_date, entry) ==
    LET status == entry.person.status
        status_code == status.code
        row == [player_id |-> entry.person.id, team_id |-> team_id,
                injury_status |-> IL_STATUS_MAP[status_code],
                collection_date |-> collection_date]
    IN  IF status = Null THEN [acc EXCEPT !.raised = TRUE]
        ELSE IF status_code \notin DOMAIN IL_STATUS_MAP THEN acc
        ELSE [acc EXCEPT !.table = replace_injury(acc.table, row),
                         !.count = acc.count + 1]

RECURSIVE injuries_roster(_, _, _, _)
injuries_roster(acc, team_id, collection_date, roster) ==
    IF roster = <<>> \/ acc.raised THEN acc
    ELSE injuries_roster(injuries_entry(acc, team_id, collection_date, Head(roster)),
                         team_id, collection_date, Tail(roster))

\* a roster failure ends the loop over the teams
RECURSIVE injuries_teams_abort(_, _, _)
injuries_teams_abort(acc, team_ids, collection_date) ==
    IF team_ids = <<>> \/ acc.raised THEN acc
    ELSE LET roster == get_team_full_roster(Head(team_ids), CURRENT_SEASON)
         IN  IF roster.raises THEN acc
             ELSE injuries_teams_abort(
                      injuries_roster(acc, Head(team_ids), collection_date, roster.data),
                      Tail(team_ids), collection_date)

\* `for team_id in team_ids` of InjuriesCollector.collect
RECURSIVE injuries_teams(_, _, _)
injuries_teams(acc, team_ids, collection_date) ==
    IF team_ids = <<>> \/ acc.raised THEN acc
    ELSE LET roster == get_team_full_roster(Head(team_ids), CURRENT_SEASON)
         IN  IF roster.raises
             THEN injuries_teams(acc, Tail(team_ids), collection_date)
             ELSE injuries_teams(
                      injuries_roster(acc, Head(team_ids), collection_date, roster.data),
                      Tail(team_ids), collection_date)

\* conn.close() that would commit the pending transaction
close_committing(committed, pending) == pending

\* `finally: conn.close()` reached without conn.commit(): the writes of the
\* pending transaction are rolled back
close_uncommitted(committed, pending) == committed

\* InjuriesCollector.collect(collection_date)
InjuriesCollect ==
    /\ fixture \in InjuriesFixtures
    /\ \E collection_date \in CollectionDates :
         LET team_ids == Ascending({t.team_id : t \in teams})
             done == injuries_teams([table |-> player_injuries, count |-> 0,
                                     raised |-> FALSE],
                                    team_ids, collection_date)
         IN  IF done.raised
             THEN /\ player_injuries' = close_uncommitted(player_injuries, done.table)
                  /\ ret' = [op |-> "InjuriesCollector.collect", raised |-> TRUE,
                             collection_date |-> collection_date,
                             count |-> done.count, pre |-> player_injuries]
             ELSE /\ player_injuries' = done.table
                  /\ ret' = [op |-> "InjuriesCollector.collect", raised |-> FALSE,
                             collection_date |-> collection_date,
                             count |-> done.count, pre |-> player_injuries]
    /\ UNCHANGED <<fixture, upstream, teams, batter_stats, pitcher_stats,
                   batter_game_logs, pitcher_game_logs, schedule, venues,
                   starting_lineups, park_factors, trace>>

\* the full roster of one team answers differently
UpstreamSetFullRoster ==
    /\ fixture \in InjuriesFixtures
    /\ \E t \in TeamIds : \E answer \in FullRosterAnswers(t) :
         /\ answer # upstream.full_roster[t]
         /\ upstream' = [upstream EXCEPT !.full_roster[t] = answer]
    /\ ret' = NoRet
    /\ UNCHANGED <<fixture, tables, trace>>

\* teams seeded, no injury stored
InitInjuriesOf(fixtures) ==
    /\ fixture \in fixtures
    /\ upstream = [full_roster |-> [t \in TeamIds |-> Returns(<<>>)]]
    /\ teams = SeededTeams
    /\ schedule = {}
    /\ batter_stats = {} /\ pitcher_stats = {}
    /\ batter_game_logs = {} /\ pitcher_game_logs = {}
    /\ player_injuries = {}
    /\ venues = {} /\ starting_lineups = {} /\ park_factors = {}
    /\ ret = NoRet
    /\ trace = <<>>

InitInjuries == InitInjuriesOf({"injuries"})

NextInjuries == UpstreamSetFullRoster \/ InjuriesCollect

SpecInjuries == InitInjuries /\ [][NextInjuries]_vars

\* the injuries collector on rosters that can be malformed as well
InitRollback == InitInjuriesOf(InjuriesFixtures)

SpecRollback == InitRollback /\ [][NextInjuries]_vars

(***************************************************************************)
(* LineupCollector                                                         *)
(***************************************************************************)
\* the store of test_lineups' seeded_db holds game 717001 of 2026-04-01
LineupSchedule == {g \in SeededSchedule : g.game_id = 717001}

\* the dates collect is asked for, MM/DD/YYYY
GameDates == {"04/01/2026", "04/02/2026"}

\* datetime.strptime(game_date, "%m/%d/%Y").strftime("%Y-%m-%d")
game_date_iso(game_date) ==
    CASE game_date = "04/01/2026" -> ISODate("2026", "-04-01")
      [] game_date = "04/02/2026" -> ISODate("2026", "-04-02")

\* battingOrder strings of a boxscore: starters, a pinch hitter, the header row
BattingOrders == {<<"1", "0", "0">>, <<"3", "0", "0">>, <<"1", "0", "1">>, <<>>}

BoxPlayers == {1001, 9999}

\* one batter of boxscore_data, listed under homeBatters or awayBatters
BoxBatter(side, person_id, order, substitution) ==
    [side |-> side, personId |-> person_id,
     name |-> IF person_id = 1001 THEN "Original" ELSE "Replacement",
     battingOrder |-> order,
     position |-> IF person_id = 1001 THEN "CF" ELSE "LF",
     substitution |-> substitution]

\* a batter without the battingOrder key
BoxBatterNoOrder(side, person_id) ==
    [side |-> side, personId |-> person_id,
     name |-> IF person_id = 1001 THEN "Original" ELSE "Replacement",
     position |-> IF person_id = 1001 THEN "CF" ELSE "LF",
     substitution |-> FALSE]

BoxSides == {"homeBatters", "awayBatters"}

\* the batters the source may list for the game of the day
BoxBatters ==
    IF fixture = "lineups"
    THEN {BoxBatter(sd, p, o, FALSE) : sd \in BoxSides, p \in BoxPlayers, o \in BattingOrders}
         \cup {BoxBatterNoOrder(sd, p) : sd \in BoxSides, p \in BoxPlayers}
         \cup {BoxBatter(sd, p, <<"1", "0", "0">>, TRUE) : sd \in BoxSides, p \in BoxPlayers}
    ELSE {BoxBatter(sd, p, <<"1", "0", "0">>, FALSE) : sd \in BoxSides, p \in BoxPlayers}

\* the game the source schedules when the store has none
FetchedGame == [game_id |-> 800001, home_id |-> 147, away_id |-> 111]

get_boxscore_data(game_id) == upstream.boxscore

\* boxscore.get(side, [])
side_batters(boxscore, side) ==
    SelectSeq(boxscore, LAMBDA b : b.side = side)

\* the key of starting_lineups: one row per game, team and batting order
lineup_key(row) == <<row.game_id, row.team_id, row.batting_order>>

\* INSERT INTO starting_lineups without its key
insert_lineup(table, row) == table \cup {row}

\* INSERT OR REPLACE INTO starting_lineups
replace_lineup(table, row) ==
    {r \in table : lineup_key(r) # lineup_key(row)} \cup {row}

\* the starter test of the loop over batters, substitutes let through
is_starter_or_substitute(batter, order) ==
    /\ order.ok
    /\ ~(order.value = 0 \/ order.value % 100 # 0)

\* the three `continue` tests of the loop over batters
is_starter(batter, order) ==
    /\ order.ok
    /\ ~(order.value = 0 \/ order.value % 100 # 0)
    /\ ~batter.substitution

\* the body of `for batter in batters` of LineupCollector.collect
lineup_batter(acc, game_id, iso, team_id, batter) ==
    LET batting_order_raw == IF "battingOrder" \in DOMAIN batter
                             THEN batter.battingOrder ELSE <<"0">>
        order == int_of(batting_order_raw)
        row == [game_id |-> game_id, game_date |-> iso, team_id |-> team_id,
                player_id |-> batter.personId, player_name |-> batter.name,
                batting_order |-> order.value \div 100,
                position |-> batter.position]
    IN  IF ~is_starter(batter, order) THEN acc
        ELSE [acc EXCEPT !.table = replace_lineup(acc.table, row),
                         !.count = acc.count + 1]

RECURSIVE lineup_batters(_, _, _, _, _)
lineup_batters(acc, game_id, iso, team_id, batters) ==
    IF batters = <<>> THEN acc
    ELSE lineup_batters(lineup_batter(acc, game_id, iso, team_id, Head(batters)),
                        game_id, iso, team_id, Tail(batters))

\* the body of `for game_id, home_team_id, away_team_id in games`
lineup_game(acc, iso, game) ==
    LET boxscore == get_boxscore_data(game.game_id)
        called == [acc EXCEPT !.calls =
                      Append(acc.calls, <<"get_boxscore_data", game.game_id>>)]
        home == lineup_batters(called, game.game_id, iso, game.home_team_id,
                               side_batters(boxscore.data, "homeBatters"))
    IN  IF boxscore.raises THEN called
        ELSE lineup_batters(home, game.game_id, iso, game.away_team_id,
                            side_batters(boxscore.data, "awayBatters"))

RECURSIVE lineup_games(_, _, _)
lineup_games(acc, iso, games) ==
    IF games = <<>> THEN acc
    ELSE lineup_games(lineup_game(acc, iso, Head(games)), iso, Tail(games))

\* SELECT game_id, home_team_id, away_team_id FROM schedule WHERE game_date = ?
games_on(iso) ==
    LET ids == Ascending({g.game_id : g \in {x \in schedule : x.game_date = iso}})
    IN  [i \in DOMAIN ids |->
            LET g == CHOOSE x \in schedule : x.game_id = ids[i]
            IN  [game_id |-> g.game_id, home_team_id |-> g.home_team_id,
                 away_team_id |-> g.away_team_id]]

\* the games of a schedule answer as (game_id, home_id, away_id)
api_games(answer) ==
    [i \in DOMAIN answer |->
        [game_id |-> answer[i].game_id, home_team_id |-> answer[i].home_id,
         away_team_id |-> answer[i].away_id]]

\* the fallback of the wrong sign: the source is asked when games are stored
needs_fallback_inverted(games) == games # <<>>

\* `if not games`
needs_fallback(games) == games = <<>>

\* LineupCollector.collect(game_date)
LineupCollect ==
    /\ fixture \in {"lineups", "lineups_empty_schedule"}
    /\ \E game_date \in GameDates :
         LET iso == game_date_iso(game_date)
             stored == games_on(iso)
             fallback == needs_fallback(stored)
             answer == get_schedule(game_date, game_date)
             calls == IF fallback THEN <<<<"get_schedule", game_date, game_date>>>>
                      ELSE <<>>
             games == IF fallback THEN api_games(answer.data) ELSE stored
             done == lineup_games([table |-> starting_lineups, count |-> 0,
                                   calls |-> calls], iso, games)
         IN  IF fallback /\ answer.raises
             THEN /\ ret' = [op |-> "LineupCollector.collect", raised |-> TRUE,
                             game_date |-> game_date, count |-> 0,
                             pre |-> starting_lineups, calls |-> calls]
                  /\ UNCHANGED starting_lineups
             ELSE /\ starting_lineups' = done.table
                  /\ ret' = [op |-> "LineupCollector.collect", raised |-> FALSE,
                             game_date |-> game_date, count |-> done.count,
                             pre |-> starting_lineups, calls |-> done.calls]
    /\ UNCHANGED <<fixture, upstream, teams, batter_stats, pitcher_stats,
                   batter_game_logs, pitcher_game_logs, schedule, player_injuries,
                   venues, park_factors, trace>>

\* the boxscore of the day lists one more batter (at most two)
UpstreamAppendBatter ==
    /\ fixture \in {"lineups", "lineups_empty_schedule"}
    /\ ~upstream.boxscore.raises
    /\ Len(upstream.boxscore.data) < (IF fixture = "lineups" THEN 2 ELSE 1)
    /\ \E batter \in BoxBatters :
         upstream' = [upstream EXCEPT
                         !.boxscore = Returns(Append(upstream.boxscore.data, batter))]
    /\ ret' = NoRet
    /\ UNCHANGED <<fixture, tables, trace>>

\* the boxscore is served empty
UpstreamClearBoxscore ==
    /\ fixture \in {"lineups", "lineups_empty_schedule"}
    /\ upstream.boxscore # Returns(<<>>)
    /\ upstream' = [upstream EXCEPT !.boxscore = Returns(<<>>)]
    /\ ret' = NoRet
    /\ UNCHANGED <<fixture, tables, trace>>

\* the boxscore call starts to raise
UpstreamBoxscoreFails ==
    /\ fixture \in {"lineups", "lineups_empty_schedule"}
    /\ ~upstream.boxscore.raises
    /\ upstream' = [upstream EXCEPT !.boxscore = Raises]
    /\ ret' = NoRet
    /\ UNCHANGED <<fixture, tables, trace>>

\* the schedule of the source answers differently, the store holding no game
UpstreamSetDaySchedule ==
    /\ fixture = "lineups_empty_schedule"
    /\ \E answer \in {Raises, Returns(<<>>), Returns(<<FetchedGame>>)} :
         /\ answer # upstream.schedule
         /\ upstream' = [upstream EXCEPT !.schedule = answer]
    /\ ret' = NoRet
    /\ UNCHANGED <<fixture, tables, trace>>

\* teams seeded; the schedule holds the game of 2026-04-01, or nothing
InitLineups ==
    /\ fixture \in {"lineups", "lineups_empty_schedule"}
    /\ upstream = [boxscore |-> Returns(<<>>), schedule |-> Returns(<<>>)]
    /\ teams = SeededTeams
    /\ schedule = IF fixture = "lineups" THEN LineupSchedule ELSE {}
    /\ batter_stats = {} /\ pitcher_stats = {}
    /\ batter_game_logs = {} /\ pitcher_game_logs = {}
    /\ player_injuries = {}
    /\ venues = {} /\ starting_lineups = {} /\ park_factors = {}
    /\ ret = NoRet
    /\ trace = <<>>

NextLineups ==
    \/ UpstreamAppendBatter
    \/ UpstreamClearBoxscore
    \/ UpstreamBoxscoreFails
    \/ UpstreamSetDaySchedule
    \/ LineupCollect

SpecLineups == InitLineups /\ [][NextLineups]_vars

(***************************************************************************)
(* TeamCollector, VenueCollector and ParkFactorsCollector                  *)
(***************************************************************************)
DIVISION_MAP ==
    200 :> <<"AL", "East">> @@ 201 :> <<"AL", "West">> @@
    202 :> <<"AL", "Central">> @@ 203 :> <<"NL", "West">> @@
    204 :> <<"NL", "East">> @@ 205 :> <<"NL", "Central">>

\* DIVISION_MAP.get(division_id, (None, None))
division_of(division_id) ==
    IF division_id \in DOMAIN DIVISION_MAP THEN DIVISION_MAP[division_id]
    ELSE <<None, None>>

PayloadTeamIds == {147, 111, 115}

TeamNames ==
    147 :> "New York Yankees" @@ 111 :> "Boston Red Sox" @@ 115 :> "Colorado Rockies"

\* the division ids the source sends: 999 is not in DIVISION_MAP
TeamDivisions == 147 :> 200 @@ 111 :> 200 @@ 115 :> 999

TeamVenues ==
    147 :> [id |-> 3313, name |-> "Yankee Stadium",
            location |-> [city |-> "Bronx", stateProvince |-> "NY"]] @@
    111 :> [id |-> 3, name |-> "Fenway Park",
            location |-> [city |-> "Boston", stateProvince |-> "MA"]] @@
    115 :> [id |-> 2399, name |-> "Coors Field",
            location |-> [city |-> "Denver", stateProvince |-> "CO"]]

\* one team of the teams payload; the abbreviation and venue keys may be missing
TeamPayload(id, abbreviation, with_venue) ==
    CASE abbreviation # None /\ with_venue ->
           [id |-> id, name |-> TeamNames[id], abbreviation |-> abbreviation,
            division |-> [id |-> TeamDivisions[id]], venue |-> TeamVenues[id]]
      [] abbreviation # None /\ ~with_venue ->
           [id |-> id, name |-> TeamNames[id], abbreviation |-> abbreviation,
            division |-> [id |-> TeamDivisions[id]]]
      [] abbreviation = None /\ with_venue ->
           [id |-> id, name |-> TeamNames[id],
            division |-> [id |-> TeamDivisions[id]], venue |-> TeamVenues[id]]
      [] OTHER ->
           [id |-> id, name |-> TeamNames[id],
            division |-> [id |-> TeamDivisions[id]]]

Abbreviations == {"NYY", "BOS"}

\* the teams the source may send
TeamPayloads ==
    IF fixture = "teams"
    THEN {TeamPayload(id, a, TRUE) : id \in PayloadTeamIds, a \in Abbreviations \cup {None}}
    ELSE {TeamPayload(147, "NYY", TRUE), TeamPayload(111, "BOS", TRUE),
          TeamPayload(115, "COL", FALSE)}

get_teams == upstream.teams

\* INSERT OR REPLACE INTO teams: team_id is the primary key and abbreviation
\* is UNIQUE, so the rows in conflict on either are deleted first
replace_team(table, row) ==
    {r \in table : r.team_id # row.team_id /\ r.abbreviation # row.abbreviation}
        \cup {row}

\* the body of `for team in teams_data` of TeamCollector.collect
team_entry(acc, team) ==
    LET abbreviation == IF "abbreviation" \in DOMAIN team THEN team.abbreviation ELSE ""
        division_id == team.division.id
        venue == IF "venue" \in DOMAIN team THEN team.venue ELSE <<>>
        row == [team_id |-> team.id, name |-> team.name,
                abbreviation |-> abbreviation,
                league |-> division_of(division_id)[1],
                division |-> division_of(division_id)[2],
                venue_name |-> IF venue = <<>> THEN "" ELSE venue.name,
                venue_id |-> IF venue = <<>> THEN Null ELSE Some(venue.id)]
    IN  [table |-> replace_team(acc.table, row), count |-> acc.count + 1]

RECURSIVE team_entries(_, _)
team_entries(acc, teams_data) ==
    IF teams_data = <<>> THEN acc
    ELSE team_entries(team_entry(acc, Head(teams_data)), Tail(teams_data))

\* TeamCollector.collect()
TeamCollect ==
    /\ fixture = "teams"
    /\ LET teams_data == get_teams
           done == team_entries([table |-> teams, count |-> 0], teams_data.data)
       IN  IF teams_data.raises
           THEN /\ ret' = [op |-> "TeamCollector.collect", raised |-> TRUE,
                           count |-> 0, pre |-> teams]
                /\ UNCHANGED teams
           ELSE /\ teams' = done.table
                /\ ret' = [op |-> "TeamCollector.collect", raised |-> FALSE,
                           count |-> done.count, pre |-> teams]
    /\ UNCHANGED <<fixture, upstream, batter_stats, pitcher_stats,
                   batter_game_logs, pitcher_game_logs, schedule, player_injuries,
                   venues, starting_lineups, park_factors, trace>>

\* INSERT OR REPLACE INTO venues (venue_id, name, city, state)
replace_venue(table, row) ==
    {r \in table : r.venue_id # row.venue_id} \cup {row}

\* the body of `for team in teams_data` of VenueCollector.collect
venue_entry(acc, team) ==
    LET venue == IF "venue" \in DOMAIN team THEN team.venue ELSE <<>>
        row == [venue_id |-> venue.id, name |-> venue.name,
                city |-> venue.location.city, state |-> venue.location.stateProvince]
    IN  IF venue = <<>> \/ venue.id = 0 \/ venue.id \in acc.seen_venues THEN acc
        ELSE [table |-> replace_venue(acc.table, row), count |-> acc.count + 1,
              seen_venues |-> acc.seen_venues \cup {venue.id}]

RECURSIVE venue_entries(_, _)
venue_entries(acc, teams_data) ==
    IF teams_data = <<>> THEN acc
    ELSE venue_entries(venue_entry(acc, Head(teams_data)), Tail(teams_data))

\* VenueCollector.collect()
VenueCollect ==
    /\ fixture = "park_factors"
    /\ LET teams_data == get_teams
           done == venue_entries([table |-> venues, count |-> 0, seen_venues |-> {}],
                                 teams_data.data)
       IN  IF teams_data.raises
           THEN /\ ret' = [op |-> "VenueCollector.collect", raised |-> TRUE,
                           count |-> 0, pre |-> venues]
                /\ UNCHANGED venues
           ELSE /\ venues' = done.table
                /\ ret' = [op |-> "VenueCollector.collect", raised |-> FALSE,
                           count |-> done.count, pre |-> venues]
    /\ UNCHANGED <<fixture, upstream, teams, batter_stats, pitcher_stats,
                   batter_game_logs, pitcher_game_logs, schedule, player_injuries,
                   starting_lineups, park_factors, trace>>

\* four of the five factor types
FACTOR_TYPES_without_bb == <<"overall", "hr", "h", "k">>

FACTOR_TYPES == <<"overall", "hr", "h", "k", "bb">>

\* the static table, factor values in hundredths
PARK_FACTORS ==
    2399 :> [overall |-> 132, hr |-> 127, h |-> 136, k |-> 92, bb |-> 105] @@
    3 :> [overall |-> 108, hr |-> 110, h |-> 110, k |-> 97, bb |-> 102] @@
    2602 :> [overall |-> 110, hr |-> 122, h |-> 105, k |-> 97, bb |-> 99] @@
    5325 :> [overall |-> 96, hr |-> 94, h |-> 97, k |-> 101, bb |-> 100] @@
    17 :> [overall |-> 105, hr |-> 113, h |-> 102, k |-> 97, bb |-> 101] @@
    3313 :> [overall |-> 105, hr |-> 115, h |-> 100, k |-> 99, bb |-> 101] @@
    2681 :> [overall |-> 106, hr |-> 112, h |-> 103, k |-> 98, bb |-> 100] @@
    4 :> [overall |-> 104, hr |-> 111, h |-> 101, k |-> 99, bb |-> 100] @@
    2392 :> [overall |-> 102, hr |-> 105, h |-> 101, k |-> 99, bb |-> 100] @@
    3312 :> [overall |-> 101, hr |-> 103, h |-> 100, k |-> 99, bb |-> 101] @@
    1 :> [overall |-> 97, hr |-> 95, h |-> 98, k |-> 100, bb |-> 100] @@
    22 :> [overall |-> 97, hr |-> 96, h |-> 98, k |-> 101, bb |-> 99] @@
    2395 :> [overall |-> 93, hr |-> 82, h |-> 96, k |-> 103, bb |-> 100] @@
    680 :> [overall |-> 94, hr |-> 88, h |-> 96, k |-> 102, bb |-> 100] @@
    2680 :> [overall |-> 94, hr |-> 88, h |-> 96, k |-> 102, bb |-> 99] @@
    12 :> [overall |-> 95, hr |-> 90, h |-> 97, k |-> 101, bb |-> 100] @@
    7 :> [overall |-> 97, hr |-> 90, h |-> 100, k |-> 101, bb |-> 99] @@
    2889 :> [overall |-> 98, hr |-> 95, h |-> 99, k |-> 101, bb |-> 100] @@
    31 :> [overall |-> 97, hr |-> 92, h |-> 99, k |-> 101, bb |-> 100] @@
    5 :> [overall |-> 99, hr |-> 98, h |-> 100, k |-> 100, bb |-> 100] @@
    3309 :> [overall |-> 100, hr |-> 102, h |-> 99, k |-> 100, bb |-> 100] @@
    3289 :> [overall |-> 96, hr |-> 93, h |-> 97, k |-> 101, bb |-> 100] @@
    4705 :> [overall |-> 101, hr |-> 104, h |-> 100, k |-> 99, bb |-> 100] @@
    32 :> [overall |-> 102, hr |-> 107, h |-> 100, k |-> 99, bb |-> 100] @@
    2394 :> [overall |-> 98, hr |-> 93, h |-> 99, k |-> 101, bb |-> 100] @@
    15 :> [overall |-> 104, hr |-> 108, h |-> 102, k |-> 98, bb |-> 100] @@
    4169 :> [overall |-> 93, hr |-> 87, h |-> 95, k |-> 103, bb |-> 100] @@
    14 :> [overall |-> 102, hr |-> 106, h |-> 100, k |-> 99, bb |-> 100] @@
    10 :> [overall |-> 94, hr |-> 86, h |-> 97, k |-> 102, bb |-> 100] @@
    2 :> [overall |-> 103, hr |-> 109, h |-> 101, k |-> 99, bb |-> 100]

\* {ft: 1.0 for ft in FACTOR_TYPES}
DEFAULT_FACTORS == [overall |-> 100, hr |-> 100, h |-> 100, k |-> 100, bb |-> 100]

\* the key of park_factors: one row per venue, season and factor type
park_factor_key(row) == <<row.venue_id, row.season, row.factor_type>>

\* INSERT OR REPLACE INTO park_factors
replace_park_factor(table, row) ==
    {r \in table : park_factor_key(r) # park_factor_key(row)} \cup {row}

\* the body of `for factor_type in FACTOR_TYPES`
RECURSIVE park_factor_types(_, _, _, _)
park_factor_types(acc, venue_id, season, types) ==
    IF types = <<>> THEN acc
    ELSE LET factors == IF venue_id \in DOMAIN PARK_FACTORS
                        THEN PARK_FACTORS[venue_id] ELSE DEFAULT_FACTORS
             factor_type == Head(types)
             factor_value == IF factor_type \in DOMAIN factors
                             THEN factors[factor_type] ELSE 100
             row == [venue_id |-> venue_id, season |-> season,
                     factor_type |-> factor_type, factor_value |-> factor_value]
         IN  park_factor_types([table |-> replace_park_factor(acc.table, row),
                                count |-> acc.count + 1],
                               venue_id, season, Tail(types))

\* the body of `for venue_id in venue_ids`
RECURSIVE park_factor_venues(_, _, _)
park_factor_venues(acc, season, venue_ids) ==
    IF venue_ids = <<>> THEN acc
    ELSE park_factor_venues(
             park_factor_types(acc, Head(venue_ids), season, FACTOR_TYPES),
             season, Tail(venue_ids))

\* ParkFactorsCollector(db_path, season).collect()
ParkFactorsCollect ==
    /\ fixture = "park_factors"
    /\ \E season_arg \in {None, HISTORICAL_SEASON} :
         LET season == IF season_arg # None THEN season_arg ELSE CURRENT_SEASON
             venue_ids == Ascending({v.venue_id : v \in venues})
             done == park_factor_venues([table |-> park_factors, count |-> 0],
                                        season, venue_ids)
         IN  /\ park_factors' = done.table
             /\ ret' = [op |-> "ParkFactorsCollector.collect", raised |-> FALSE,
                        season |-> season, count |-> done.count,
                        pre |-> park_factors]
    /\ UNCHANGED <<fixture, upstream, teams, batter_stats, pitcher_stats,
                   batter_game_logs, pitcher_game_logs, schedule, player_injuries,
                   venues, starting_lineups, trace>>

\* the source sends one more team (at most two)
UpstreamAppendTeam ==
    /\ fixture \in {"teams", "park_factors"}
    /\ ~upstream.teams.raises
    /\ Len(upstream.teams.data) < 2
    /\ \E team \in TeamPayloads :
         upstream' = [upstream EXCEPT
                         !.teams = Returns(Append(upstream.teams.data, team))]
    /\ ret' = NoRet
    /\ UNCHANGED <<fixture, tables, trace>>

\* the source sends no team
UpstreamClearTeams ==
    /\ fixture \in {"teams", "park_factors"}
    /\ upstream.teams # Returns(<<>>)
    /\ upstream' = [upstream EXCEPT !.teams = Returns(<<>>)]
    /\ ret' = NoRet
    /\ UNCHANGED <<fixture, tables, trace>>

\* the teams call starts to raise
UpstreamTeamsFails ==
    /\ fixture \in {"teams", "park_factors"}
    /\ ~upstream.teams.raises
    /\ upstream' = [upstream EXCEPT !.teams = Raises]
    /\ ret' = NoRet
    /\ UNCHANGED <<fixture, tables, trace>>

\* the venues of test_park_factors' seeded_db
SeededVenues ==
    {[venue_id |-> 2399, name |-> "Coors Field", city |-> "Denver", state |-> "CO"],
     [venue_id |-> 3, name |-> "Fenway Park", city |-> "Boston", state |-> "MA"],
     [venue_id |-> 99999, name |-> "Unknown Park", city |-> "Nowhere", state |-> "XX"]}

\* an empty store; for the park factors, the seeded venues or none
InitTeams ==
    /\ fixture \in {"teams", "park_factors"}
    /\ upstream = [teams |-> Returns(<<>>)]
    /\ teams = {}
    /\ venues \in IF fixture = "teams" THEN {{}} ELSE {{}, SeededVenues}
    /\ schedule = {}
    /\ batter_stats = {} /\ pitcher_stats = {}
    /\ batter_game_logs = {} /\ pitcher_game_logs = {}
    /\ player_injuries = {}
    /\ starting_lineups = {} /\ park_factors = {}
    /\ ret = NoRet
    /\ trace = <<>>

NextTeams ==
    \/ UpstreamAppendTeam
    \/ UpstreamClearTeams
    \/ UpstreamTeamsFails
    \/ TeamCollect
    \/ VenueCollect
    \/ ParkFactorsCollect

SpecTeams == InitTeams /\ [][NextTeams]_vars

(***************************************************************************)
(* The collectors that loop over teams and players                         *)
(***************************************************************************)
InitBatch ==
    \/ InitStatsOf(PositionFixtures)
    \/ InitGameLogOf({"batter_game_logs_two_players", "pitcher_game_logs_two_players"})
    \/ InitInjuries

NextBatch == NextStats \/ NextGameLog \/ NextInjuries

SpecBatch == InitBatch /\ [][NextBatch]_vars

(***************************************************************************)
(* Claims on the game logs                                                 *)
(***************************************************************************)
IsGameLogRun ==
    ret.op \in {"BatterGameLogCollector.collect", "PitcherGameLogCollector.collect"}

\* the table the last run wrote to
GameLogTable ==
    IF fixture \in BatterLogFixtures THEN batter_game_logs ELSE pitcher_game_logs

\* the (game id, player id) pairs the run fetched
FetchedPairs ==
    UNION {{<<upstream.game_log[p].data[i].game.gamePk, p>> :
                i \in DOMAIN upstream.game_log[p].data} :
           p \in {q \in LoggedPlayers : ~upstream.game_log[q].raises}}

RowsOfPair(table, pair) ==
    {r \in table : r.game_id = pair[1] /\ r.player_id = pair[2]}

\* C2: when a game-log collector runs a second time in a row, the upstream
\* data being the same, every fetched (game id, player id) pair has exactly
\* one stored row, the second run changes no row and it returns 0.
C2_TwiceIdempotent ==
    (IsGameLogRun /\ ret.again) =>
        /\ \A pair \in FetchedPairs : Cardinality(RowsOfPair(GameLogTable, pair)) = 1
        /\ GameLogTable = ret.pre
        /\ ret.count = 0

\* the part of C2 that the date boundary leaves intact
C2_SecondRunIsNoOp ==
    (IsGameLogRun /\ ret.again) => GameLogTable = ret.pre /\ ret.count = 0

\* C3: each game-log table holds at most one row per (game id, player id),
\* whatever the collections and the payloads, a game listed twice included.
C3_UniqueGamePlayer ==
    \A table \in {batter_game_logs, pitcher_game_logs} :
        \A r1, r2 \in table :
            (r1.game_id = r2.game_id /\ r1.player_id = r2.player_id) => r1 = r2

\* a payload listing one game twice with different statistics was collected
\* in both seasons' modes and the table holds the game once
C3_Witness ==
    /\ IsGameLogRun
    /\ ret.count = 1
    /\ \E p \in LoggedPlayers :
         /\ ~upstream.game_log[p].raises
         /\ Len(upstream.game_log[p].data) = 2
         /\ upstream.game_log[p].data[1].game = upstream.game_log[p].data[2].game
         /\ upstream.game_log[p].data[1].stat # upstream.game_log[p].data[2].stat
         /\ Cardinality(RowsOfPair(GameLogTable,
                <<upstream.game_log[p].data[1].game.gamePk, p>>)) = 1

\* the season the last game-log run collected for
TargetSeason ==
    IF ret.historical_season # None THEN ret.historical_season ELSE CURRENT_SEASON

\* the players whose game-log fetch succeeded in the last run
FetchedPlayers == {p \in LoggedPlayers : ~upstream.game_log[p].raises}

\* the fetched entries of player p that the run skipped at the date boundary
SkippedAtBoundary(p) ==
    LET last_date == get_last_game_date(ret.pre, p, TargetSeason)
    IN  {i \in DOMAIN upstream.game_log[p].data :
            last_date # 0 /\ upstream.game_log[p].data[i].date <= last_date}

\* C22: every fetched entry a game-log run skips because its date is not
\* after the player's last stored date of the target season already has a
\* stored row for its (game id, player id), so after the run every entry of a
\* successfully fetched list is stored.
C22_BoundarySkipsOnlyRedundant ==
    IsGameLogRun =>
        /\ \A p \in FetchedPlayers : \A i \in SkippedAtBoundary(p) :
               RowsOfPair(ret.pre, <<upstream.game_log[p].data[i].game.gamePk, p>>) # {}
        /\ \A pair \in FetchedPairs : RowsOfPair(GameLogTable, pair) # {}

\* the lists holding the entries of s in every order
Reorderings(s) ==
    {[i \in DOMAIN s |-> s[f[i]]] :
        f \in {g \in [DOMAIN s -> DOMAIN s] :
                  \A a, b \in DOMAIN s : g[a] = g[b] => a = b}}

\* the season-stat row the collector reads player p from
StatsRow(p) ==
    IF fixture \in BatterLogFixtures
    THEN CHOOSE r \in batter_stats : r.player_id = p
    ELSE CHOOSE r \in pitcher_stats : r.player_id = p

\* the last run's loop over player p's games, had the fetched list been `games`
RunOn(p, games) ==
    LET acc == [table |-> ret.pre, count |-> 0]
        last_date == get_last_game_date(ret.pre, p, TargetSeason)
    IN  IF fixture \in BatterLogFixtures
        THEN batter_log_games(acc, StatsRow(p), TargetSeason, last_date, games)
        ELSE pitcher_log_games(acc, StatsRow(p), TargetSeason, last_date, games)

RECURSIVE CountOver(_)
CountOver(player_ids) ==
    IF player_ids = <<>> THEN 0
    ELSE RunOn(Head(player_ids), upstream.game_log[Head(player_ids)].data).count
             + CountOver(Tail(player_ids))

KeysOf(table, p) == {r.game_id : r \in RowsOf(table, p)}

\* no game id is listed twice with different dates or statistics
ListedOnce(games) ==
    \A i, j \in DOMAIN games : games[i].game = games[j].game => games[i] = games[j]

NewPairs == {pair \in FetchedPairs : RowsOfPair(ret.pre, pair) = {}}

\* C24: a stored game-log row is never changed by a later collection, whatever
\* statistics or date upstream then reports for its game, and entries whose
\* (game id, player id) is already stored add nothing to the returned count.
C24_InsertIfAbsent ==
    IsGameLogRun =>
        /\ \A r \in ret.pre : r \in GameLogTable
        /\ \A pair \in FetchedPairs :
             RowsOfPair(ret.pre, pair) # {} =>
                 RowsOfPair(GameLogTable, pair) = RowsOfPair(ret.pre, pair)
        /\ ret.count <= Cardinality(NewPairs)

\* upstream re-lists a stored game on a later day with other statistics: the
\* entry passes the date boundary, the row stays as stored and 0 is returned
C24_Witness ==
    /\ ret.op = "BatterGameLogCollector.collect"
    /\ ret.count = 0
    /\ \E p \in FetchedPlayers :
         \E i \in DOMAIN upstream.game_log[p].data :
            LET e == upstream.game_log[p].data[i]
            IN  \E r \in ret.pre :
                   /\ r.game_id = e.game.gamePk /\ r.player_id = p
                   /\ r.season = TargetSeason
                   /\ r.game_date < e.date
                   /\ r.hits # e.stat.hits
                   /\ get_last_game_date(ret.pre, p, TargetSeason) < e.date
                   /\ r \in batter_game_logs

Scheduled(game_id) == {g \in schedule : g.game_id = game_id}

\* the fetched pairs the last run had to insert: not stored before, and with
\* an entry after the date boundary
DuePairs ==
    {pair \in NewPairs :
        \E i \in DOMAIN upstream.game_log[pair[2]].data :
            /\ upstream.game_log[pair[2]].data[i].game.gamePk = pair[1]
            /\ i \notin SkippedAtBoundary(pair[2])}

\* C25: a game-log row of a game that Schedule does not hold is inserted all
\* the same, with opponent id, opponent abbreviation, is_home and venue id
\* null; a row of a scheduled game has the scheduled venue id, is_home 1
\* exactly when its team id is the scheduled home team id, and as opponent a
\* participant of the game other than its own team.
C25_GameContext ==
    /\ IsGameLogRun => \A pair \in DuePairs : RowsOfPair(GameLogTable, pair) # {}
    /\ \A r \in batter_game_logs \cup pitcher_game_logs :
         IF Scheduled(r.game_id) = {}
         THEN /\ r.opponent_id = Null /\ r.opponent_abbr = Null
              /\ r.is_home = Null /\ r.venue_id = Null
         ELSE \A g \in Scheduled(r.game_id) :
                /\ r.venue_id = g.venue_id
                /\ r.is_home \in {Some(0), Some(1)}
                /\ r.is_home = Some(1) <=> r.team_id = g.home_team_id
                /\ r.opponent_id # Some(r.team_id)
                /\ \/ /\ r.opponent_id = Some(g.away_team_id)
                      /\ r.opponent_abbr = Some(g.away_abbr)
                      /\ r.team_id = g.home_team_id
                   \/ /\ r.opponent_id = Some(g.home_team_id)
                      /\ r.opponent_abbr = Some(g.home_abbr)
                      /\ r.team_id # g.home_team_id

\* one run stored a row of the unscheduled game 717002 with the four nulls, a
\* row of the home team's player and a row of a player whose team is in
\* neither column of the scheduled game
C25_Witness ==
    /\ IsGameLogRun
    /\ ret.count = 3
    /\ \E r \in GameLogTable :
         /\ Scheduled(r.game_id) = {}
         /\ r.venue_id = Null
    /\ \E r \in GameLogTable : \E g \in Scheduled(r.game_id) :
         /\ r.team_id = g.home_team_id
         /\ r.is_home = Some(1)
         /\ r.opponent_abbr = Some("COL")
    /\ \E r \in GameLogTable : \E g \in Scheduled(r.game_id) :
         /\ r.team_id \notin {g.home_team_id, g.away_team_id}
         /\ r.is_home = Some(0)

\* C29: the count a game-log collect() returns is the number of rows by
\* which its table grew during the run, whatever the store held and whatever
\* upstream answered.
C29_CountIsGrowth ==
    IsGameLogRun =>
        /\ ret.pre \subseteq GameLogTable
        /\ ret.count = Cardinality(GameLogTable \ ret.pre)

\* one player's fetch fails and the other's list names one game twice: one
\* row more, 1 returned
C29_Witness ==
    /\ IsGameLogRun
    /\ ret.count = 1
    /\ Cardinality(GameLogTable) = Cardinality(ret.pre) + 1
    /\ \E p \in LoggedPlayers : upstream.game_log[p].raises
    /\ \E p \in FetchedPlayers :
         LET games == upstream.game_log[p].data
         IN  /\ Len(games) = 2
             /\ games[1].game = games[2].game
             /\ RowsOfPair(ret.pre, <<games[1].game.gamePk, p>>) = {}

Seasons == {CURRENT_SEASON, HISTORICAL_SEASON}

PairsOf(table) == {<<r.game_id, r.player_id>> : r \in table}

\* C30: over any sequence of game-log collections, the latest stored game
\* date of every (player id, season) never decreases and the set of stored
\* (game id, player id) keys only grows.
C30_WatermarkMonotonic ==
    [][/\ batter_game_logs' # batter_game_logs =>
            /\ \A p \in Players, season \in Seasons :
                   get_last_game_date(batter_game_logs', p, season)
                       >= get_last_game_date(batter_game_logs, p, season)
            /\ PairsOf(batter_game_logs) \subseteq PairsOf(batter_game_logs')
       /\ pitcher_game_logs' # pitcher_game_logs =>
            /\ \A p \in Players, season \in Seasons :
                   get_last_game_date(pitcher_game_logs', p, season)
                       >= get_last_game_date(pitcher_game_logs, p, season)
            /\ PairsOf(pitcher_game_logs) \subseteq PairsOf(pitcher_game_logs')]_vars

\* a run raised a watermark that earlier runs had set
C30_Witness ==
    /\ IsGameLogRun
    /\ \E p \in FetchedPlayers :
         /\ get_last_game_date(ret.pre, p, TargetSeason) > 0
         /\ get_last_game_date(GameLogTable, p, TargetSeason)
                > get_last_game_date(ret.pre, p, TargetSeason)
         /\ PairsOf(ret.pre) # PairsOf(GameLogTable)

(***************************************************************************)
(* Claims on the schedule                                                  *)
(***************************************************************************)
NormalizedStatuses == {"Scheduled", "In Progress", "Postponed", "Final"}

\* C5: whatever raw status the source emits, the status stored in every
\* schedule row is one of Scheduled, In Progress, Postponed, Final.
C5_StatusNormalized == \A r \in schedule : r.status \in NormalizedStatuses

\* the fetched games update_scores acts on: normalized status Final
FetchedFinal ==
    IF upstream.schedule.raises THEN {}
    ELSE {upstream.schedule.data[i] : i \in
            {j \in DOMAIN upstream.schedule.data :
                normalize_status(upstream.schedule.data[j].status) = "Final"}}

\* update_scores leaves the set of rows and, in each row, every column but
\* home_score, away_score and status; rows without a fetched Final game are
\* untouched, the others carry the scores of a fetched Final game
UpdateScoresFrame ==
    /\ {r.game_id : r \in schedule} = {r.game_id : r \in ret.pre}
    /\ Cardinality(schedule) = Cardinality(ret.pre)
    /\ \A r \in schedule : \E q \in ret.pre :
         /\ q.game_id = r.game_id
         /\ [r EXCEPT !.home_score = q.home_score, !.away_score = q.away_score,
                      !.status = q.status] = q
         /\ IF \E g \in FetchedFinal : g.game_id = r.game_id
            THEN /\ r.status = "Final"
                 /\ \E g \in FetchedFinal :
                      /\ g.game_id = r.game_id
                      /\ r.home_score = g.home_score
                      /\ r.away_score = g.away_score
            ELSE r = q

\* C6: update_scores never inserts or deletes a row, changes only home_score,
\* away_score and status of the stored rows that have a fetched Final game,
\* and returns the number of stored games it updated.
C6_UpdateScoresOnly ==
    (ret.op = "ScheduleCollector.update_scores" /\ ~ret.raised) =>
        /\ UpdateScoresFrame
        /\ ret.count = Cardinality({r.game_id : r \in
                           {q \in ret.pre : \E g \in FetchedFinal : g.game_id = q.game_id}})

\* the part of C6 that holds: the frame, and a count of the fetched Final
\* entries that matched a stored row
C6_FrameAndEntryCount ==
    (ret.op = "ScheduleCollector.update_scores" /\ ~ret.raised) =>
        /\ UpdateScoresFrame
        /\ ret.count = Cardinality({i \in DOMAIN upstream.schedule.data :
               /\ normalize_status(upstream.schedule.data[i].status) = "Final"
               /\ \E q \in ret.pre : q.game_id = upstream.schedule.data[i].game_id})

\* what the player search leaves _resolve_pitcher_id to return for a name
ResolvedId(pitcher_name) ==
    IF pitcher_name = "" \/ upstream.lookup.raises THEN Null
    ELSE IF upstream.lookup.data = <<>> THEN Null
    ELSE IF "id" \in DOMAIN upstream.lookup.data[1]
         THEN Some(upstream.lookup.data[1].id)
         ELSE Null

\* C26: whatever the probable-pitcher names and whatever the player search
\* does (it raises, finds nobody, finds a player), a collect() whose schedule
\* fetch succeeded does not raise and stores every fetched game, with a null
\* pitcher id where the name was empty or the search failed or found nothing.
C26_PitcherResolutionNeverFails ==
    (/\ ret.op = "ScheduleCollector.collect"
     /\ ~upstream.schedule.raises
     /\ store_initialized) =>
        /\ ~ret.raised
        /\ ret.count = Len(upstream.schedule.data)
        /\ \A i \in DOMAIN upstream.schedule.data :
             LET game == upstream.schedule.data[i]
             IN  \E r \in schedule :
                    /\ r.game_id = game.game_id
                    /\ r.home_probable_pitcher_id = ResolvedId(game.home_probable_pitcher)
                    /\ r.away_probable_pitcher_id = ResolvedId(game.away_probable_pitcher)

\* the search raises for a named probable pitcher: the game is stored with
\* both pitcher ids null
C26_Witness ==
    /\ ret.op = "ScheduleCollector.collect"
    /\ ~ret.raised
    /\ upstream.lookup.raises
    /\ \E r \in schedule :
         /\ r.game_id = 717001
         /\ r \notin ret.pre
         /\ r.home_probable_pitcher_id = Null
    /\ \E i \in DOMAIN upstream.schedule.data :
         upstream.schedule.data[i].home_probable_pitcher # ""

(***************************************************************************)
(* Claims on the injuries                                                  *)
(***************************************************************************)
IsInjuriesRun == ret.op = "InjuriesCollector.collect"

\* the roster entries the run fetched, with the team they were listed under
FetchedEntries ==
    UNION {{[team_id |-> t, person |-> upstream.full_roster[t].data[i].person] :
                i \in DOMAIN upstream.full_roster[t].data} :
           t \in {u \in TeamIds : ~upstream.full_roster[u].raises}}

InjuryRows(table, player_id, collection_date) ==
    {r \in table : r.player_id = player_id /\ r.collection_date = collection_date}

\* C9: at most one injury row per (player id, collection date); collecting
\* a player again on the same date replaces the row by the mapping of the
\* code seen last; rows of other collection dates are unchanged.
C9_OneRowPerPlayerDate ==
    /\ \A r1, r2 \in player_injuries :
           (r1.player_id = r2.player_id /\ r1.collection_date = r2.collection_date)
               => r1 = r2
    /\ IsInjuriesRun =>
         /\ \A e \in FetchedEntries :
              (/\ e.person.status.code \in DOMAIN IL_STATUS_MAP
               /\ InjuryRows(ret.pre, e.person.id, ret.collection_date) # {}) =>
                  /\ InjuryRows(player_injuries, e.person.id, ret.collection_date) # {}
                  /\ \A r \in InjuryRows(player_injuries, e.person.id, ret.collection_date) :
                         r.injury_status = IL_STATUS_MAP[e.person.status.code]
         /\ {r \in player_injuries : r.collection_date # ret.collection_date}
              = {r \in ret.pre : r.collection_date # ret.collection_date}

\* a stored IL-10 was replaced by IL-60 on the same date while the row of
\* the other date stayed
C9_Witness ==
    /\ IsInjuriesRun
    /\ \E q \in ret.pre, r \in player_injuries, o \in player_injuries :
         /\ q.collection_date = ret.collection_date
         /\ q.injury_status = "IL-10"
         /\ r.player_id = q.player_id
         /\ r.collection_date = q.collection_date
         /\ r.injury_status = "IL-60"
         /\ o.player_id = q.player_id
         /\ o.collection_date # ret.collection_date
    /\ \E e \in FetchedEntries : e.person.status.code = "D60"

\* the designation the claim gives for each code of the injured lists
ILDesignation(code) ==
    CASE code = "D7" -> "IL-7"
      [] code = "D10" -> "IL-10"
      [] code = "D15" -> "IL-15"
      [] code = "D60" -> "IL-60"
      [] code = "ILF" -> "IL-60"

\* C10: a roster player gets a row if and only if the status code is one of
\* D7, D10, D15, D60, ILF, stored as IL-7, IL-10, IL-15, IL-60, IL-60; any
\* other or missing code writes nothing and is not counted; every stored
\* injury_status is one of IL-7, IL-10, IL-15, IL-60.
C10_InjuredListOnly ==
    /\ \A r \in player_injuries : r.injury_status \in {"IL-7", "IL-10", "IL-15", "IL-60"}
    /\ IsInjuriesRun =>
         /\ \A e \in FetchedEntries :
              IF e.person.status.code \in {"D7", "D10", "D15", "D60", "ILF"}
              THEN InjuryRows(player_injuries, e.person.id, ret.collection_date)
                     = {[player_id |-> e.person.id, team_id |-> e.team_id,
                         injury_status |-> ILDesignation(e.person.status.code),
                         collection_date |-> ret.collection_date]}
              ELSE InjuryRows(player_injuries, e.person.id, ret.collection_date)
                     = InjuryRows(ret.pre, e.person.id, ret.collection_date)
         /\ ret.count = Cardinality({e \in FetchedEntries :
                e.person.status.code \in {"D7", "D10", "D15", "D60", "ILF"}})

\* one run met an ILF player, stored as IL-60, and a player without a code,
\* not stored
C10_Witness ==
    /\ IsInjuriesRun
    /\ ret.count = 1
    /\ ret.pre = {}
    /\ \E e1, e2 \in FetchedEntries :
         /\ e1.person.status.code = "ILF"
         /\ e2.person.status.code = ""
         /\ InjuryRows(player_injuries, e1.person.id, ret.collection_date) # {}
         /\ InjuryRows(player_injuries, e2.person.id, ret.collection_date) = {}

(***************************************************************************)
(* Claim on the failures of one team or one player                         *)
(***************************************************************************)
\* the date boundary the run used for a player
Boundary(p) ==
    get_last_game_date(ret.pre, p,
        IF ret.historical_season # None THEN ret.historical_season ELSE CURRENT_SEASON)

\* C4: when the gateway call for one team's roster, one player's stats or
\* one player's game log raises, collect() does not raise; the other teams and
\* players are processed, their rows are written and the count covers them.
C4_FailureIsolated ==
    /\ ret.op \in {"BatterStatsCollector.collect", "PitcherStatsCollector.collect",
                   "BatterGameLogCollector.collect", "PitcherGameLogCollector.collect",
                   "InjuriesCollector.collect"} => ~ret.raised
    /\ ret.op = "BatterStatsCollector.collect" =>
         /\ \A p \in BattersFetched : \E r \in batter_stats :
              r.player_id = p /\ r.games_played = HittingOf(p).gamesPlayed
         /\ ret.count >= Cardinality({p \in BattersFetched : RowsOf(ret.pre, p) = {}})
    /\ ret.op = "PitcherStatsCollector.collect" =>
         /\ \A p \in PitchersFetched : \E r \in pitcher_stats :
              r.player_id = p /\ r.games_played = PitchingOf(p).gamesPlayed
         /\ ret.count >= Cardinality({p \in PitchersFetched : RowsOf(ret.pre, p) = {}})
    /\ IsGameLogRun =>
         /\ \A p \in LoggedPlayers :
              IF upstream.game_log[p].raises
              THEN RowsOf(GameLogTable, p) = RowsOf(ret.pre, p)
              ELSE \A i \in DOMAIN upstream.game_log[p].data :
                     LET e == upstream.game_log[p].data[i]
                     IN  (Boundary(p) = 0 \/ e.date > Boundary(p)) =>
                             RowsOfPair(GameLogTable, <<e.game.gamePk, p>>) # {}
         /\ ret.count = Cardinality(GameLogTable \ ret.pre)
    /\ IsInjuriesRun =>
         /\ \A e \in FetchedEntries :
              e.person.status.code \in DOMAIN IL_STATUS_MAP =>
                  InjuryRows(player_injuries, e.person.id, ret.collection_date) # {}
         /\ ret.count = Cardinality({e \in FetchedEntries :
                e.person.status.code \in DOMAIN IL_STATUS_MAP})

\* the roster of the first team raised and the injured player of the second
\* team was stored and counted
C4_Witness ==
    /\ IsInjuriesRun
    /\ upstream.full_roster[111].raises
    /\ ~upstream.full_roster[147].raises
    /\ ret.pre = {}
    /\ ret.count = 1
    /\ \E r \in player_injuries : r.team_id = 147

(***************************************************************************)
(* The role and the outs of a pitcher, applied to drawn arguments          *)
(***************************************************************************)
MaxGames == 30

MaxInnings == 9

DigitChar == <<"0", "1", "2", "3", "4", "5", "6", "7", "8", "9">>

\* str(n) of a non-negative integer, as its characters
RECURSIVE digits_of(_)
digits_of(n) ==
    IF n < 10 THEN <<DigitChar[n + 1]>>
    ELSE digits_of(n \div 10) \o <<DigitChar[(n % 10) + 1]>>

\* the string "w.d"
Decimal(w, d) == digits_of(w) \o <<".">> \o digits_of(d)

\* innings pitched as the callers pass them: a float, or the payload's string
InningsArguments ==
    {Float(double_of(w, d)) : w \in 0 .. MaxInnings, d \in 0 .. 2}
        \cup {Str(Decimal(w, d)) : w \in 0 .. MaxInnings, d \in 0 .. 2}

\* the role derivation of PitcherStatsCollector.collect on drawn arguments
RoleOf ==
    /\ fixture = "role"
    /\ ret' = [op |-> "role", games_played |-> upstream.games_played,
               games_started |-> upstream.games_started,
               result |-> role(upstream.games_played, upstream.games_started)]
    /\ UNCHANGED <<fixture, upstream, tables, trace>>

\* _ip_to_outs(ip) on a drawn argument
IpToOuts ==
    /\ fixture = "ip_to_outs"
    /\ ret' = [op |-> "_ip_to_outs", ip |-> upstream.ip,
               result |-> ip_to_outs(upstream.ip)]
    /\ UNCHANGED <<fixture, upstream, tables, trace>>

InitFunctions ==
    /\ fixture \in {"role", "ip_to_outs"}
    /\ IF fixture = "role"
       THEN upstream \in [games_played : 0 .. MaxGames, games_started : 0 .. MaxGames]
       ELSE upstream \in [ip : InningsArguments]
    /\ teams = {} /\ schedule = {}
    /\ batter_stats = {} /\ pitcher_stats = {}
    /\ batter_game_logs = {} /\ pitcher_game_logs = {}
    /\ player_injuries = {}
    /\ venues = {} /\ starting_lineups = {} /\ park_factors = {}
    /\ ret = NoRet
    /\ trace = <<>>

NextFunctions ==
    \/ RoleOf
    \/ IpToOuts

\* the role: on drawn arguments, and as the season-stat collector stores it
InitRole == InitFunctions \/ InitStats

NextRole == NextFunctions \/ NextStats

SpecRole == InitRole /\ [][NextRole]_vars

\* the outs: on drawn arguments, and as the game-log collector stores them
InitOuts == InitFunctions \/ InitGameLog

NextOuts == NextFunctions \/ NextGameLog

SpecOuts == InitOuts /\ [][NextOuts]_vars

(***************************************************************************)
(* Claims on the role and the outs                                         *)
(***************************************************************************)
\* C19: the role is SP exactly when games_played > 0 and
\* 2 * games_started >= games_played, and RP otherwise, for the role derived
\* from any non-negative games_played and games_started and for the position
\* of every stored pitcher row.
C19_RoleByHalfStarts ==
    /\ (ret # NoRet /\ ret.op = "role") =>
         ret.result = IF ret.games_played > 0
                         /\ 2 * ret.games_started >= ret.games_played
                      THEN "SP" ELSE "RP"
    /\ \A r \in pitcher_stats :
         r.position = IF r.games_played > 0
                         /\ 2 * r.games_started >= r.games_played
                      THEN "SP" ELSE "RP"

\* 30 games played, 15 started: exactly half, SP
C19_Witness ==
    /\ ret # NoRet /\ ret.op = "role"
    /\ ret.games_played = 30 /\ ret.games_started = 15
    /\ ret.result = "SP"

\* C20: for whole innings w and tenths digit d in {0, 1, 2}, passed as a
\* number or as the string "w.d", _ip_to_outs returns 3 * w + d, and every
\* stored pitcher game log carries that value as outs_recorded for its
\* innings pitched.
C20_OutsFromInnings ==
    \A w \in 0 .. MaxInnings, d \in 0 .. 2 :
        /\ (ret # NoRet /\ ret.op = "_ip_to_outs"
              /\ (ret.ip = Float(double_of(w, d)) \/ ret.ip = Str(Decimal(w, d)))) =>
             ret.result = 3 * w + d
        /\ \A r \in pitcher_game_logs :
             r.innings_pitched = Float(double_of(w, d)) => r.outs_recorded = 3 * w + d

\* the string "7.1" gives 22 outs
C20_Witness ==
    /\ ret # NoRet /\ ret.op = "_ip_to_outs"
    /\ ret.ip = Str(<<"7", ".", "1">>)
    /\ ret.result = 22

(***************************************************************************)
(* Claims on the position filter of the season-stat collectors             *)
(***************************************************************************)
\* the roster entries a run walks: team by team, the rosters that were served
RECURSIVE WalkedEntries(_)
WalkedEntries(team_ids) ==
    IF team_ids = <<>> THEN <<>>
    ELSE (IF upstream.roster[Head(team_ids)].raises THEN <<>>
          ELSE upstream.roster[Head(team_ids)].data)
         \o WalkedEntries(Tail(team_ids))

\* the entry carries the position abbreviation "P"
MarkedP(entry) ==
    "position" \in DOMAIN entry /\ entry.position.abbreviation = "P"

\* one call of the endpoint for each entry of the sequence
CallsFor(endpoint, entries) ==
    [i \in DOMAIN entries |-> <<endpoint, entries[i].person.id>>]

\* C18: a batter run fetches hitting stats for exactly the roster entries whose
\* position abbreviation is not "P" (a missing abbreviation included) and a
\* pitcher run fetches pitching stats for exactly those that are "P"; each run
\* changes stored rows only of players it fetched, so every roster entry is
\* handled by exactly one of the two collectors.
C18_OnePathPerEntry ==
    LET walked == WalkedEntries(Ascending({t.team_id : t \in teams}))
        pitchers == SelectSeq(walked, LAMBDA e : MarkedP(e))
        others == SelectSeq(walked, LAMBDA e : ~MarkedP(e))
    IN  /\ (ret # NoRet /\ ret.op = "BatterStatsCollector.collect") =>
             /\ ret.calls = CallsFor("get_player_hitting_stats", others)
             /\ \A p \in Players :
                  RowsOf(batter_stats, p) # RowsOf(ret.pre, p) =>
                      \E i \in DOMAIN others : others[i].person.id = p
        /\ (ret # NoRet /\ ret.op = "PitcherStatsCollector.collect") =>
             /\ ret.calls = CallsFor("get_player_pitching_stats", pitchers)
             /\ \A p \in Players :
                  RowsOf(pitcher_stats, p) # RowsOf(ret.pre, p) =>
                      \E i \in DOMAIN pitchers : pitchers[i].person.id = p

\* a batter run over a pitcher and an entry without abbreviation: only the
\* second is fetched, and stored
C18_Witness ==
    /\ ret # NoRet /\ ret.op = "BatterStatsCollector.collect"
    /\ \E t, u \in TeamIds :
         /\ ~upstream.roster[t].raises /\ ~upstream.roster[u].raises
         /\ \E i \in DOMAIN upstream.roster[t].data :
              MarkedP(upstream.roster[t].data[i])
         /\ \E i \in DOMAIN upstream.roster[u].data :
              "position" \notin DOMAIN upstream.roster[u].data[i]
    /\ Len(ret.calls) = 1
    /\ ret.count = 1
    /\ \E r \in batter_stats : r.position = ""

(***************************************************************************)
(* Claims on the lineups                                                   *)
(***************************************************************************)
IsLineupRun == ret # NoRet /\ ret.op = "LineupCollector.collect"

\* the games whose boxscore the run asks for
LineupGames ==
    LET local == {g \in schedule : g.game_date = game_date_iso(ret.game_date)}
    IN  IF local # {}
        THEN {[game_id |-> g.game_id, home |-> g.home_team_id,
               away |-> g.away_team_id] : g \in local}
        ELSE {[game_id |-> upstream.schedule.data[i].game_id,
               home |-> upstream.schedule.data[i].home_id,
               away |-> upstream.schedule.data[i].away_id] :
                 i \in DOMAIN upstream.schedule.data}

\* the number a battingOrder stands for; 0 when the key is missing
OrderOf(b) ==
    IF "battingOrder" \in DOMAIN b THEN int_of(b.battingOrder)
    ELSE [ok |-> TRUE, value |-> 0]

\* a starter: a non-zero multiple of 100 and no substitution
Qualifies(b) ==
    /\ OrderOf(b).ok
    /\ OrderOf(b).value # 0
    /\ \E n \in 1..9 : OrderOf(b).value = 100 * n
    /\ b.substitution = FALSE

\* the boxscore entries of the run: none when the boxscore call raised
BoxEntries ==
    IF upstream.boxscore.raises THEN <<>> ELSE upstream.boxscore.data

\* the qualifying entries of one slot of one game, in the order listed
SlotEntries(g, team_id, n) ==
    SelectSeq(BoxEntries,
              LAMBDA b : /\ Qualifies(b)
                         /\ OrderOf(b).value = 100 * n
                         /\ \/ b.side = "homeBatters" /\ team_id = g.home
                            \/ b.side = "awayBatters" /\ team_id = g.away)

SlotRows(table, game_id, team_id, n) ==
    {r \in table : r.game_id = game_id /\ r.team_id = team_id /\ r.batting_order = n}

RowOfEntry(g, team_id, n, b) ==
    [game_id |-> g.game_id, game_date |-> game_date_iso(ret.game_date),
     team_id |-> team_id, player_id |-> b.personId, player_name |-> b.name,
     batting_order |-> n, position |-> b.position]

LineupGameIds == {717001, 800001}

\* C11: a completed LineupCollector.collect counts exactly the boxscore
\* entries whose battingOrder parses to a non-zero multiple of 100 and whose
\* substitution flag is false, stores each of them at lineup position
\* battingOrder / 100, and leaves every slot without such an entry as it was:
\* entries like 101, substitutes, and orders that are 0, missing or
\* unparsable are neither stored nor counted.
C11_StartersOnly ==
    (IsLineupRun /\ ~ret.raised) =>
        /\ ret.count = Cardinality(LineupGames)
                       * Cardinality({i \in DOMAIN BoxEntries : Qualifies(BoxEntries[i])})
        /\ \A game_id \in LineupGameIds, team_id \in TeamIds, n \in 0..9 :
             LET played == {g \in LineupGames : g.game_id = game_id}
                 entries == IF played = {} THEN <<>>
                            ELSE SlotEntries(CHOOSE g \in played : TRUE, team_id, n)
             IN  SlotRows(starting_lineups, game_id, team_id, n) =
                     IF entries = <<>>
                     THEN SlotRows(ret.pre, game_id, team_id, n)
                     ELSE {RowOfEntry(CHOOSE g \in played : TRUE, team_id, n,
                                      entries[Len(entries)])}

\* a run over a boxscore with a starter batting third and a pinch hitter (101):
\* the starter is stored at position 3, the pinch hitter is not
C11_Witness ==
    /\ IsLineupRun /\ ~ret.raised
    /\ ret.count = 1
    /\ Len(BoxEntries) = 2
    /\ \E i, j \in DOMAIN BoxEntries :
         /\ "battingOrder" \in DOMAIN BoxEntries[i]
         /\ BoxEntries[i].battingOrder = <<"3", "0", "0">>
         /\ "battingOrder" \in DOMAIN BoxEntries[j]
         /\ BoxEntries[j].battingOrder = <<"1", "0", "1">>
         /\ \E r \in starting_lineups :
              r.player_id = BoxEntries[i].personId /\ r.batting_order = 3
    /\ Cardinality(starting_lineups) = 1

\* C12: the starting lineups never hold two rows for one (game id, team id,
\* batting order), and a run that finds a starter in a slot that was stored
\* leaves that slot with one row carrying the new player's id, name and
\* position.
C12_OneRowPerSlot ==
    /\ \A r1, r2 \in starting_lineups :
         (r1.game_id = r2.game_id /\ r1.team_id = r2.team_id
            /\ r1.batting_order = r2.batting_order) => r1 = r2
    /\ (IsLineupRun /\ ~ret.raised) =>
         \A old \in ret.pre :
           \A g \in {x \in LineupGames : x.game_id = old.game_id} :
             LET entries == SlotEntries(g, old.team_id, old.batting_order)
                 last == entries[Len(entries)]
                 now == SlotRows(starting_lineups, old.game_id, old.team_id,
                                 old.batting_order)
             IN  entries # <<>> =>
                   /\ Cardinality(now) = 1
                   /\ \A r \in now : /\ r.player_id = last.personId
                                     /\ r.player_name = last.name
                                     /\ r.position = last.position
                   /\ Cardinality(starting_lineups) <= Cardinality(ret.pre)
                        + Cardinality({i \in DOMAIN BoxEntries : Qualifies(BoxEntries[i])})
                        - 1

\* a rerun that found another player in a stored slot: the slot changed hands
C12_Witness ==
    /\ IsLineupRun /\ ~ret.raised
    /\ \E old \in ret.pre, new \in starting_lineups :
         /\ lineup_key(old) = lineup_key(new)
         /\ old.player_id = 1001
         /\ new.player_id = 9999
         /\ new.player_name = "Replacement"
    /\ Cardinality(starting_lineups) = Cardinality(ret.pre)

ScheduleFetches ==
    {i \in DOMAIN ret.calls : ret.calls[i][1] = "get_schedule"}

\* C13: LineupCollector.collect asks the gateway for the schedule exactly
\* when the schedule table holds no game on the requested date, then once,
\* with that date as start and as end; when the table holds a game on the
\* date the schedule is not fetched and the boxscores asked for are those of
\* the stored games.
C13_FallbackOnlyWhenNoLocalGame ==
    IsLineupRun =>
        LET local == {g \in schedule : g.game_date = game_date_iso(ret.game_date)}
        IN  /\ (ScheduleFetches # {}) <=> (local = {})
            /\ Cardinality(ScheduleFetches) <= 1
            /\ \A i \in ScheduleFetches :
                 ret.calls[i] = <<"get_schedule", ret.game_date, ret.game_date>>
            /\ local # {} =>
                 /\ ~ret.raised
                 /\ {ret.calls[i] : i \in DOMAIN ret.calls} =
                        {<<"get_boxscore_data", g.game_id>> : g \in local}
                 /\ Len(ret.calls) = Cardinality(local)

\* a run on an empty schedule table: one fetch for the day, then the boxscore
\* of the fetched game
C13_Witness ==
    /\ IsLineupRun /\ ~ret.raised
    /\ schedule = {}
    /\ ret.calls = <<<<"get_schedule", "04/01/2026", "04/01/2026">>,
                     <<"get_boxscore_data", 800001>>>>
    /\ ret.count = 1

(***************************************************************************)
(* Claims on the park factors and the teams                                *)
(***************************************************************************)
IsParkFactorsRun == ret # NoRet /\ ret.op = "ParkFactorsCollector.collect"

FactorTypeNames == {"overall", "hr", "h", "k", "bb"}

SeasonRows(table, season) == {r \in table : r.season = season}

\* C14: after ParkFactorsCollector.collect for a season the store holds, for
\* that season, exactly one row per venue of the venues table and factor type
\* (five per venue), the returned count is that number, every venue missing
\* from the static table has the value 1.0 (100 hundredths) for all five
\* types, and the run adds rows only for venues that had none for the season:
\* a second run for the same season and venues adds no row.
C14_FivePerVenue ==
    IsParkFactorsRun =>
        LET rows == SeasonRows(park_factors, ret.season)
            before == SeasonRows(ret.pre, ret.season)
            venue_ids == {v.venue_id : v \in venues}
        IN  /\ Cardinality(rows) = Cardinality(venue_ids) * 5
            /\ ret.count = Cardinality(venue_ids) * 5
            /\ \A id \in venue_ids, ft \in FactorTypeNames :
                 Cardinality({r \in rows : r.venue_id = id /\ r.factor_type = ft}) = 1
            /\ \A r \in rows :
                 r.venue_id \notin DOMAIN PARK_FACTORS => r.factor_value = 100
            /\ Cardinality(park_factors) - Cardinality(ret.pre) =
                 5 * Cardinality({id \in venue_ids :
                                    \A r \in before : r.venue_id # id})
            /\ {r.venue_id : r \in before} = venue_ids => park_factors = ret.pre

\* a second run for 2026 over the three seeded venues, one of them unknown to
\* the static table: fifteen rows counted, none added
C14_Witness ==
    /\ IsParkFactorsRun
    /\ ret.season = "2026"
    /\ ret.count = 15
    /\ park_factors = ret.pre
    /\ Cardinality({r \in park_factors : r.venue_id = 99999 /\ r.factor_value = 100}) = 5
    /\ \E r \in park_factors : r.venue_id = 2399 /\ r.factor_type = "hr"
                                 /\ r.factor_value = 127

\* C17: no step removes a stored team: every team id stored before a step is
\* still stored after it, whatever ids and abbreviations the teams payload
\* of a later TeamCollector.collect carries.
C17_TeamsNeverDeleted ==
    [][\A t \in teams : \E u \in teams' : u.team_id = t.team_id]_vars

(***************************************************************************)
(* Claims on the transaction of a run                                      *)
(***************************************************************************)
\* C15: when an error that no per-unit handler catches leaves
\* InjuriesCollector.collect, nothing the run wrote is kept: the stored
\* injuries are those stored before the call.
C15_FailedRunWritesNothing ==
    (ret # NoRet /\ ret.op = "InjuriesCollector.collect" /\ ret.raised) =>
        player_injuries = ret.pre

\* a run that wrote the injured player of the first team and then met a
\* malformed entry on the second
C15_Witness ==
    /\ ret # NoRet /\ ret.op = "InjuriesCollector.collect"
    /\ ret.raised
    /\ ret.count = 1
    /\ ret.pre = {}
    /\ player_injuries = {}

\* C16: a ScheduleCollector operation that opened a connection has closed it
\* when it returns or raises, whichever statement failed, and it commits at
\* most once, only when the run succeeds.
C16_ClosedWhateverFails ==
    (ret # NoRet /\ ret.op \in {"ScheduleCollector.collect",
                                "ScheduleCollector.update_scores"}) =>
        /\ ret.opened => ret.closed
        /\ ret.commits <= 1
        /\ ret.commits = 1 <=> (ret.opened /\ ~ret.raised)

(***************************************************************************)
(* Claims on the normalization of season-stat payloads                     *)
(***************************************************************************)
\* the pitch_hand the payload of pitcher p carries, "" when it carries none
PitchHandOf(p) ==
    IF "pitch_hand" \in DOMAIN upstream.pitching[p].data
    THEN upstream.pitching[p].data.pitch_hand
    ELSE ""

\* C27: the throwing hand the pitcher collector stores is the fetched value
\* under the batting-side mapping: Left as L, Right as R, Switch as S, any
\* other value as received.
C27_ThrowsNormalizedAsBats ==
    ret.op = "PitcherStatsCollector.collect" =>
        \A p \in PitchersFetched :
            \A r \in pitcher_stats \ ret.pre :
                r.player_id = p =>
                    r.throws = IF PitchHandOf(p) \in DOMAIN BAT_SIDE_MAP
                               THEN BAT_SIDE_MAP[PitchHandOf(p)]
                               ELSE PitchHandOf(p)

\* the decimal number a fetched rate statistic denotes, in thousandths
Denoted(x) == IF x.kind = "str" THEN decimal_value(x.chars) ELSE x.milli

RateColumn(r, key) ==
    CASE key = "avg" -> r.batting_avg
      [] key = "obp" -> r.obp
      [] key = "slg" -> r.slg
      [] key = "ops" -> r.ops

\* C28: each of avg, obp, slg and ops is stored as the decimal number the
\* fetched value denotes, be it a number, a string starting with the point
\* (".316") or a string with digits before the point ("1.020").
C28_RatesDenoted ==
    ret.op = "BatterStatsCollector.collect" =>
        \A p \in BattersFetched :
            \A r \in batter_stats \ ret.pre :
                r.player_id = p =>
                    \A key \in RateKeys \cap DOMAIN HittingOf(p) :
                        RateColumn(r, key) = Denoted(HittingOf(p)[key])

====
